---- MODULE Spec2Model ----
(***************************************************************************)
(* Verification model of terraform-provider-akw-azure-crayon: the          *)
(* asynchronous provisioning reconciler of the crayon_azure_subscription   *)
(* resource (internal/resources/azure_subscription.go) on top of the       *)
(* Cloud-iQ client (internal/client/subscriptions.go, client.go).          *)
(*                                                                         *)
(* Strings that the code inspects (resource IDs, display names) are        *)
(* sequences of one-character strings, so that strings.HasPrefix,          *)
(* strings.TrimPrefix, strconv.Itoa and strconv.Atoi are computed and not  *)
(* assumed.  GUIDs and statuses are only copied and compared, they are     *)
(* plain strings.  Time is counted in seconds.                             *)
(***************************************************************************)
EXTENDS Integers, Sequences, FiniteSets, TLC

VARIABLES
    tf,       \* durable Terraform state of the resource (AzureSubscriptionResourceModel)
    pc,       \* position of the running operation: "idle", "armWait",
              \* "billWait", "billGet"
    cr,       \* arguments of the Create call that is blocked in a polling loop,
              \* in hit the listed record in which it found the name, and in
              \* ctxDone whether the ctx handed to Create has been cancelled,
              \* in att what the latest listing attempt of the loop met
    elapsed,  \* seconds since the polling loop armed its timer and ticker
    tick,     \* the ticker channel holds an undelivered tick (capacity 1)
    sent,     \* billing requests attempted by the current / last operation
    polls,    \* listing requests issued by the polling loop of the operation
    azTok,    \* getAzureToken calls made by the current / last operation
    last,     \* what the last finished operation did and returned
    now,      \* time.Now(), in seconds since the Client was built
    config,   \* Client.config: the credentials the provider was configured with
    cache,    \* Client.token, tokenExp, azureToken, azureTokenExp
    tcall,    \* what the last finished getToken / getAzureToken call did
    thr,      \* position and locals of each goroutine inside getToken, and in
              \* seen the acquisitions whose token and expiry its cache
              \* branch last returned on
    tag       \* which acquisition wrote Client.token and Client.tokenExp
              \* (0: none), and how many acquisitions were answered

resvars == <<tf, pc, cr, elapsed, tick, sent, polls, azTok, last>>

authvars == <<now, config, cache, tcall, thr, tag>>

vars == <<tf, pc, cr, elapsed, tick, sent, polls, azTok, last,
          now, config, cache, tcall, thr, tag>>

----------------------------------------------------------------------------
(* Bounds of the model *)

MaxList == 2          \* longest subscription list a backend answers with
MaxBillingID == 42    \* largest numeric ID the billing API hands out
MaxStreak == 2        \* consecutive unresolved Reads that are counted

(* Program constants *)

AzureWaitTimeout == 1200      \* 20*time.Minute, in seconds
PollInterval == 30            \* ticker of WaitForAzureSubscription, seconds
BillingPollInterval == 15     \* ticker of pollForSubscription, seconds
DefaultCreateTimeout == 10    \* minutes, when create_timeout is unset
DefaultOrganizationID == 4051878    \* var organizationID int64 = 4051878
StatusAccepted == 202
StatusNoContent == 204

----------------------------------------------------------------------------
(* Strings *)

PendingPrefix == <<"p", "e", "n", "d", "i", "n", "g", "-">>

Digits == <<"0", "1", "2", "3", "4", "5", "6", "7", "8", "9">>

IsDigit(c) == \E i \in 1..10 : Digits[i] = c

DigitVal(c) == (CHOOSE i \in 1..10 : Digits[i] = c) - 1

HasPrefix(s, p) == Len(s) >= Len(p) /\ SubSeq(s, 1, Len(p)) = p

\* strings.TrimPrefix, had it taken the prefix off a second time
TrimPrefix_twice(s, p) ==
    LET once == IF HasPrefix(s, p) THEN SubSeq(s, Len(p) + 1, Len(s)) ELSE s
    IN IF HasPrefix(once, p) THEN SubSeq(once, Len(p) + 1, Len(once)) ELSE once

TrimPrefix(s, p) == IF HasPrefix(s, p) THEN SubSeq(s, Len(p) + 1, Len(s)) ELSE s

RECURSIVE ItoaNat(_)
ItoaNat(n) == IF n < 10 THEN <<Digits[n + 1]>>
              ELSE ItoaNat(n \div 10) \o <<Digits[(n % 10) + 1]>>

\* strconv.Itoa
Itoa(n) == IF n < 0 THEN <<"-">> \o ItoaNat(0 - n) ELSE ItoaNat(n)

RECURSIVE DigitsVal(_)
DigitsVal(s) == IF Len(s) = 0 THEN 0
                ELSE 10 * DigitsVal(SubSeq(s, 1, Len(s) - 1)) + DigitVal(s[Len(s)])

AtoiBody(s) == IF Len(s) > 0 /\ s[1] \in {"+", "-"} THEN Tail(s) ELSE s

\* strconv.Atoi: err == nil
AtoiOK(s) == /\ Len(AtoiBody(s)) > 0
             /\ \A i \in 1..Len(AtoiBody(s)) : IsDigit(AtoiBody(s)[i])

\* strconv.Atoi: the value, when err == nil
AtoiVal(s) == IF Len(s) > 0 /\ s[1] = "-" THEN 0 - DigitsVal(AtoiBody(s))
              ELSE DigitsVal(AtoiBody(s))

\* s without its leading zeros, down to one digit
RECURSIVE TrimZeros(_)
TrimZeros(s) == IF Len(s) > 1 /\ s[1] = "0" THEN TrimZeros(Tail(s)) ELSE s

\* 1<<63 - 1 and 1<<63, in decimal
MaxInt64 == <<"9", "2", "2", "3", "3", "7", "2", "0", "3", "6",
              "8", "5", "4", "7", "7", "5", "8", "0", "7">>

MinInt64Magnitude == <<"9", "2", "2", "3", "3", "7", "2", "0", "3", "6",
                       "8", "5", "4", "7", "7", "5", "8", "0", "8">>

\* a <= b for two digit strings of the same length
RECURSIVE DigitsLeq(_, _)
DigitsLeq(a, b) ==
    IF Len(a) = 0 THEN TRUE
    ELSE IF DigitVal(a[1]) < DigitVal(b[1]) THEN TRUE
    ELSE IF DigitVal(a[1]) > DigitVal(b[1]) THEN FALSE
    ELSE DigitsLeq(Tail(a), Tail(b))

\* the value written in s lies in the range of int64 (the range error of
\* strconv.ParseInt with bitSize 64), for s with AtoiOK
FitsInt64(s) ==
    LET m == TrimZeros(AtoiBody(s)) IN
    \/ Len(m) < Len(MaxInt64)
    \/ /\ Len(m) = Len(MaxInt64)
       /\ DigitsLeq(m, IF s[1] = "-" THEN MinInt64Magnitude ELSE MaxInt64)

\* strconv.ParseInt(s, 10, 64): err == nil
ParseIntOK(s) == AtoiOK(s) /\ FitsInt64(s)

----------------------------------------------------------------------------
(* Inputs *)

Names == { <<"a">>, PendingPrefix \o <<"a">> }

PlanIDs == {7}

CreateTimeouts == {0, 1}    \* create_timeout in minutes, 0 when unset

BillingIDs == {0, MaxBillingID}

GUIDs == {"g1", "g2"}

----------------------------------------------------------------------------
(* Records *)

\* client.AzureSubscription
AzureSubscription(id, name, guid, status, plan) ==
    [ID |-> id, FriendlyName |-> name, SubscriptionID |-> guid,
     Status |-> status, AzurePlanID |-> plan]

\* the zero value of AzureSubscription (var result AzureSubscription)
ZeroSub == AzureSubscription(0, <<>>, "", "", 0)

\* AzureSubscriptionResourceModel, with absence of the resource from state
NullTF == [present |-> FALSE, id |-> <<>>, plan |-> 0, name |-> <<>>,
           guid |-> "", status |-> "", timeout |-> 0]

Model(id, plan, name, guid, status, timeout) ==
    [present |-> TRUE, id |-> id, plan |-> plan, name |-> name,
     guid |-> guid, status |-> status, timeout |-> timeout]

\* a request to a billing endpoint
Req(ep, plan, id, name) == [ep |-> ep, plan |-> plan, id |-> id, name |-> name]

----------------------------------------------------------------------------
(* Client: the struct built by NewClient *)

\* the zero time.Time: it lies before every instant of a run
ZeroTime == 0 - 1000000

\* the token fields of a Client that has acquired nothing yet
ZeroCache == [token |-> "", tokenExp |-> ZeroTime,
              azureToken |-> "", azureTokenExp |-> ZeroTime]

\* the fields of ClientConfig that token acquisition reads, and the
\* organization ID, here the one of a provider configured without any
ClientConfig(username, password, azClientID, azSecret, azTenant) ==
    [Username |-> username, Password |-> password, AzureClientID |-> azClientID,
     AzureClientSecret |-> azSecret, AzureTenantID |-> azTenant,
     OrganizationID |-> DefaultOrganizationID]

\* an earlier call: for token kind, it ended with err or returned ret, and
\* left the expiry exp for that token
NoPrior == [kind |-> "none", err |-> FALSE, ret |-> "", exp |-> ZeroTime]

NoTokenResp == [via |-> "none", status |-> 0, kind |-> "none", tok |-> "",
                expiresIn |-> 0]

\* What the get-token call that just finished met and returned (kind is
\* "none" once time has passed since):
\*   kind    "billing" (getToken) or "azure" (getAzureToken)
\*   at      the time of the call       before  the cache it started from
\*   hit     it returned from the cache branch
\*   reqs    the token requests and login-session commands it issued
\*   resp    the answer to the request  ret, err  what it returned
\*   first   the latest call that finished before it
NoCall == [kind |-> "none", at |-> 0, before |-> ZeroCache, hit |-> FALSE,
           reqs |-> <<>>, resp |-> NoTokenResp, ret |-> "", err |-> FALSE,
           first |-> NoPrior]

\* goroutines that share the Client
Callers == {1, 2}

\* no goroutine is inside getToken
NoThreads ==
    [c \in Callers |-> [pc |-> "idle", resp |-> NoTokenResp, acq |-> 0, seen |-> <<>>]]

\* the Client right after NewClient, with no call made
ClientBuilt(cfg) ==
    /\ now = 0
    /\ config = cfg
    /\ cache = ZeroCache
    /\ tcall = NoCall
    /\ thr = NoThreads
    /\ tag = [token |-> 0, tokenExp |-> 0, issued |-> 0]

----------------------------------------------------------------------------
(* doRequest and parseResponse *)

Statuses == {200, StatusAccepted, StatusNoContent, 401, 500}

\* Outcomes of doRequest followed by reading the body: the token could not
\* be obtained, the transport failed, or an HTTP answer arrived whose body
\* is unreadable, empty, not JSON, or the JSON of one of recs.
DoOutcomes(recs) ==
    { [via |-> v, status |-> 0, kind |-> "none", rec |-> ZeroSub]
        : v \in {"token", "transport"} }
    \cup { [via |-> "http", status |-> s, kind |-> k, rec |-> ZeroSub]
        : s \in Statuses, k \in {"unreadable", "empty", "garbage"} }
    \cup { [via |-> "http", status |-> s, kind |-> "json", rec |-> r]
        : s \in Statuses, r \in recs }

\* doRequest: a request reaches the endpoint unless getToken failed
RequestSent(o) == o.via # "token"

\* doRequest, had it sent the request again after a transport error
Attempted_retriesOnce(o, req) ==
    IF ~RequestSent(o) THEN <<>>
    ELSE IF o.via = "transport" THEN <<req, req>>
    ELSE <<req>>

\* doRequest: the requests that go out for one call: a single
\* httpClient.Do, in no loop
Attempted(o, req) == IF RequestSent(o) THEN <<req>> ELSE <<>>

\* parseResponse, had it decoded a JSON body whatever the status
parseResponse_decodesAnyStatus(o) ==
    IF o.kind = "unreadable" THEN "error"
    ELSE IF o.kind = "json" THEN "nil"
    ELSE IF o.status < 200 \/ o.status >= 300 THEN "error"
    ELSE IF o.kind = "empty"
         THEN IF o.status = StatusAccepted THEN "accepted"
              ELSE IF o.status = StatusNoContent THEN "nil"
              ELSE "error"
    ELSE "error"

\* parseResponse, had it tested the 202 status before the body length
parseResponse_acceptedAnyBody(o) ==
    IF o.kind = "unreadable" THEN "error"
    ELSE IF o.status < 200 \/ o.status >= 300 THEN "error"
    ELSE IF o.status = StatusAccepted THEN "accepted"
    ELSE IF o.kind = "empty"
         THEN IF o.status = StatusNoContent THEN "nil" ELSE "error"
    ELSE IF o.kind = "garbage" THEN "error"
    ELSE "nil"

\* parseResponse: "nil", "accepted" (ErrAccepted) or "error"
parseResponse(o) ==
    IF o.kind = "unreadable" THEN "error"
    ELSE IF o.status < 200 \/ o.status >= 300 THEN "error"
    ELSE IF o.kind = "empty"
         THEN IF o.status = StatusAccepted THEN "accepted"
              ELSE IF o.status = StatusNoContent THEN "nil"
              ELSE "error"
    ELSE IF o.kind = "garbage" THEN "error"
    ELSE "nil"

\* err of doRequest + parseResponse
CallResult(o) == IF o.via # "http" THEN "error" ELSE parseResponse(o)

\* the value parseResponse leaves in *result
Decoded(o) == IF o.via = "http" /\ o.kind = "json" THEN o.rec ELSE ZeroSub

----------------------------------------------------------------------------
(* Backend answers *)

\* (ID, GUID, status) of the records the billing API holds
BillingFacts == { <<0, "g1", "active">>, <<MaxBillingID, "g2", "cancelled">> }

\* records of plan `plan` the billing API can list
BillingSubs(plan) ==
    { AzureSubscription(f[1], n, f[2], f[3], plan) : n \in Names, f \in BillingFacts }

\* all sequences over S of length at most n
RECURSIVE SeqsUpTo(_, _)
SeqsUpTo(S, n) ==
    IF n = 0 THEN { <<>> }
    ELSE SeqsUpTo(S, n - 1)
         \cup { Append(l, x) : l \in { m \in SeqsUpTo(S, n - 1) : Len(m) = n - 1 }, x \in S }

\* answers to a single-record call (create, get, rename) about `name`
SingleRecs(plan, id, name) ==
    { AzureSubscription(id, name, g, s, plan)
        : g \in {"", "g1"}, s \in {"", "active"} }

\* client.AzureARMSubscription (State is never read by the code)
ArmSubs == [subscriptionId : GUIDs, displayName : Names]

\* Outcomes of one listing attempt of WaitForAzureSubscription
ArmOutcomes ==
    { [kind |-> k, value |-> <<>>] : k \in {"transport", "readerr", "non200", "badjson"} }
    \cup { [kind |-> "list", value |-> l] : l \in SeqsUpTo(ArmSubs, MaxList) }

\* Outcomes of GetAzureSubscriptions: err # nil, or the Items of the envelope
ListOutcomes(plan) ==
    { [via |-> v, ok |-> FALSE, items |-> <<>>] : v \in {"token", "transport", "http"} }
    \cup { [via |-> "http", ok |-> TRUE, items |-> l]
             : l \in SeqsUpTo(BillingSubs(plan), MaxList) }

----------------------------------------------------------------------------
(* Client: internal/client/subscriptions.go *)

\* the loop over the listing, had it gone on after a match
FirstIndex_lastMatch(list, f, name) ==
    IF \E i \in 1..Len(list) : list[i][f] = name
    THEN CHOOSE i \in 1..Len(list) :
             /\ list[i][f] = name
             /\ \A j \in (i + 1)..Len(list) : list[j][f] # name
    ELSE 0

\* the loop over the listing, had it started at the second element
FirstIndex_fromSecond(list, f, name) ==
    IF \E i \in 2..Len(list) : list[i][f] = name
    THEN CHOOSE i \in 2..Len(list) :
             /\ list[i][f] = name
             /\ \A j \in 2..(i - 1) : list[j][f] # name
    ELSE 0

\* index of the first element of list whose field f equals name, 0 if none
FirstIndex(list, f, name) ==
    IF \E i \in 1..Len(list) : list[i][f] = name
    THEN CHOOSE i \in 1..Len(list) :
             /\ list[i][f] = name
             /\ \A j \in 1..(i - 1) : list[j][f] # name
    ELSE 0

\* FindAzureSubscriptionByName, had it returned the loop variable after the loop
FindAzureSubscriptionByName_lastItem(o, name) ==
    IF ~o.ok \/ Len(o.items) = 0 THEN [err |-> TRUE, sub |-> ZeroSub]
    ELSE IF FirstIndex(o.items, "FriendlyName", name) = 0
         THEN [err |-> FALSE, sub |-> o.items[Len(o.items)]]
         ELSE [err |-> FALSE, sub |-> o.items[FirstIndex(o.items, "FriendlyName", name)]]

\* FindAzureSubscriptionByName: [err, sub]
FindAzureSubscriptionByName(o, name) ==
    IF ~o.ok THEN [err |-> TRUE, sub |-> ZeroSub]
    ELSE IF FirstIndex(o.items, "FriendlyName", name) = 0
         THEN [err |-> TRUE, sub |-> ZeroSub]
         ELSE [err |-> FALSE, sub |-> o.items[FirstIndex(o.items, "FriendlyName", name)]]

\* the found branch, had it built the record of the fallback branch
ActiveRecord_unconfirmed(plan, name, guid) ==
    AzureSubscription(0, name, "pending", "provisioning", plan)

\* the record CreateAzureSubscription builds when Azure confirmed the name
ActiveRecord(plan, name, guid) == AzureSubscription(0, name, guid, "active", plan)

\* the fallback branch, had it left the GUID empty and used the status "pending"
PendingRecord_noGuid(plan, name) == AzureSubscription(0, name, "", "pending", plan)

\* the record CreateAzureSubscription builds when the poll failed
PendingRecord(plan, name) == AzureSubscription(0, name, "pending", "provisioning", plan)

\* the timeout CreateAzureSubscription hands to WaitForAzureSubscription,
\* in seconds, for a caller whose create_timeout is callerMinutes
WaitTimeoutArg(callerMinutes) == AzureWaitTimeout

----------------------------------------------------------------------------
(* Resource: internal/resources/azure_subscription.go *)

IsPending(id) == HasPrefix(id, PendingPrefix)

\* the parse of the ID, had the error of strconv.Atoi been dropped
ParseID_ignoresError(idValue) ==
    [ok |-> TRUE, val |-> IF AtoiOK(idValue) THEN AtoiVal(idValue) ELSE 0]

\* strconv.Atoi(idValue) and the check of its error
ParseID(idValue) ==
    [ok |-> AtoiOK(idValue), val |-> IF AtoiOK(idValue) THEN AtoiVal(idValue) ELSE 0]

\* the mapping, had it stored the decimal ID of every returned record
CreateID_decimalAlways(name, sub) == Itoa(sub.ID)

\* Create, "Map response to model": the ID stored for the returned record
CreateID(name, sub) == IF sub.ID = 0 THEN PendingPrefix \o name ELSE Itoa(sub.ID)

CreateModel(in, sub) ==
    Model(CreateID(in.name, sub), in.plan, in.name, sub.SubscriptionID,
          sub.Status, in.timeout)

NoResp == [via |-> "none", status |-> 0, kind |-> "none", rec |-> ZeroSub]

NoList == [via |-> "none", ok |-> FALSE, items |-> <<>>]

NoCr == [plan |-> 0, name |-> <<>>, timeout |-> 0, wait |-> 0, resp |-> NoResp,
         hit |-> <<>>, ctxDone |-> FALSE, att |-> "none"]

\* What the last finished operation was given, met and returned:
\*   in      its arguments (Import: the composite key, in name)
\*   prior   the state it started from
\*   err     an error diagnostic     warn    a warning diagnostic
\*   resp    the answer of the billing create, rename or cancel call
\*   poll    how the polling loop ended: "none", "authfail", "timeout", "found",
\*           "error"
\*   seen    the entries of the listing that the loop of
\*           WaitForAzureSubscription went through when it returned the GUID
\*           (pollForSubscription: the listed entry with the name)
\*   ret     the record and retErr the error CreateAzureSubscription returned
\*   listed  the answer of the billing listing (Read of a pending record)
\*   streak  consecutive Reads of a pending record that found it still pending
\*   origin  the state before the first Read of that streak
LastNone == [op |-> "none", in |-> NoCr, prior |-> NullTF, err |-> FALSE,
             warn |-> FALSE, resp |-> NoResp, poll |-> "none", seen |-> <<>>,
             ret |-> ZeroSub, retErr |-> FALSE, listed |-> NoList, streak |-> 0,
             origin |-> NullTF]

\* the operation returns to the framework: no loop is armed any more
Idle == /\ pc' = "idle"
        /\ cr' = NoCr
        /\ elapsed' = 0
        /\ tick' = FALSE
        /\ UNCHANGED authvars

\* CreateAzureSubscription returned (sub, err) and Create finished with
\* state newtf and, when warn, a warning diagnostic
CreateDone(in, sub, err, poll, seen, newtf, warn) ==
    /\ tf' = IF err THEN tf ELSE newtf
    /\ last' = [LastNone EXCEPT !.op = "Create", !.in = [in EXCEPT !.hit = <<>>],
                    !.prior = tf,
                    !.err = err, !.warn = (~err /\ warn),
                    !.resp = in.resp, !.poll = poll, !.seen = seen,
                    !.ret = IF err THEN ZeroSub ELSE sub, !.retErr = err]
    /\ Idle

\* CreateAzureSubscription returned (sub, err); Create maps it to state
\* and to diagnostics ("Map response to model")
CreateReturn(in, sub, err, poll, seen) ==
    CreateDone(in, sub, err, poll, seen, CreateModel(in, sub), sub.ID = 0)

\* the ticker, had it delivered a tick at once when it was created
NewTicker_ticksAtOnce == TRUE

\* ticker := time.NewTicker(30 * time.Second): whether ticker.C holds a tick
\* when the loop is entered; the first tick comes after one interval
NewTicker == FALSE

\* Create up to the point where CreateAzureSubscription blocks in the
\* polling loop of WaitForAzureSubscription, or returns without polling.
Create ==
    /\ pc = "idle"
    /\ ~tf.present
    /\ \E plan \in PlanIDs, name \in Names, tmo \in CreateTimeouts :
       \E o \in DoOutcomes(SingleRecs(plan, MaxBillingID, name)
                           \cup SingleRecs(plan, 0, name)) :
         LET in == [plan |-> plan, name |-> name, timeout |-> tmo,
                    wait |-> WaitTimeoutArg(tmo), resp |-> o, hit |-> <<>>,
                    ctxDone |-> FALSE, att |-> "none"]
         IN
         /\ sent' = Attempted(o, Req("create", plan, 0, name))
         /\ polls' = 0
         /\ IF CallResult(o) = "accepted"
            THEN /\ azTok' = 1
                 /\ \/ \* getAzureToken failed
                       CreateReturn(in, PendingRecord(plan, name), FALSE,
                                    "authfail", <<>>)
                    \/ \* timer and ticker armed
                       /\ pc' = "armWait"
                       /\ cr' = in
                       /\ elapsed' = 0
                       /\ tick' = NewTicker
                       /\ last' = LastNone
                       /\ UNCHANGED <<tf, authvars>>
            ELSE /\ azTok' = 0
                 /\ IF CallResult(o) = "error"
                    THEN CreateReturn(in, ZeroSub, TRUE, "none", <<>>)
                    ELSE CreateReturn(in, Decoded(o), FALSE, "none", <<>>)

\* time passes while WaitForAzureSubscription is blocked in select: the
\* ticker fires every PollInterval; an undelivered tick is not queued twice
WaitTimePasses ==
    /\ pc = "armWait"
    /\ elapsed < cr.wait
    /\ elapsed' = elapsed + PollInterval
    /\ tick' = TRUE
    /\ UNCHANGED <<tf, pc, cr, sent, polls, azTok, last, authvars>>

\* the caller cancels the ctx it handed to Create, or the deadline of that
\* ctx passes, while the loop is running and before the loop's own timeout.
\* Create passes no ctx on to CreateAzureSubscription: nothing else changes.
CtxDone ==
    /\ pc = "armWait"
    /\ ~cr.ctxDone
    /\ elapsed < cr.wait
    /\ cr' = [cr EXCEPT !.ctxDone = TRUE]
    /\ UNCHANGED <<tf, pc, elapsed, tick, sent, polls, azTok, last, authvars>>

\* the timer, had time.After been called in the select of every pass
TimeoutReady_rearmedEveryPass(el, wait) == PollInterval >= wait

\* timeoutCh := time.After(timeout), armed once before the loop: it is
\* ready from the deadline on
TimeoutReady(el, wait) == el >= wait

\* case <-timeoutCh
WaitTimeout ==
    /\ pc = "armWait"
    /\ TimeoutReady(elapsed, cr.wait)
    /\ CreateReturn(cr, PendingRecord(cr.plan, cr.name), FALSE, "timeout", <<>>)
    /\ UNCHANGED <<sent, polls, azTok>>

\* what one listing attempt met: the failure, or a list with or without
\* the name
AttemptKind(o, name) ==
    IF o.kind # "list" THEN o.kind
    ELSE IF FirstIndex(o.value, "displayName", name) # 0 THEN "match"
    ELSE "nomatch"

\* the attempt, had a transport error been returned like the error of
\* http.NewRequest
AttemptStep_transportFatal(o, name) ==
    IF o.kind = "transport" THEN "return err"
    ELSE IF AttemptKind(o, name) = "match" THEN "return guid"
    ELSE "continue"

\* lines 222-249: what the attempt does after it met o
AttemptStep(o, name) ==
    IF o.kind = "transport" THEN "continue"
    ELSE IF o.kind = "readerr" THEN "continue"
    ELSE IF o.kind = "non200" THEN "continue"
    ELSE IF o.kind = "badjson" THEN "continue"
    ELSE IF AttemptKind(o, name) = "match" THEN "return guid"
    ELSE "continue"

\* case <-ticker.C: one listing attempt
WaitTick ==
    /\ pc = "armWait"
    /\ tick
    /\ polls' = polls + 1
    /\ \E o \in ArmOutcomes :
         LET in == [cr EXCEPT !.att = AttemptKind(o, cr.name)] IN
         IF AttemptStep(o, cr.name) = "return guid"
         THEN CreateReturn(in,
                  ActiveRecord(cr.plan, cr.name,
                      o.value[FirstIndex(o.value, "displayName", cr.name)].subscriptionId),
                  FALSE, "found",
                  SubSeq(o.value, 1, FirstIndex(o.value, "displayName", cr.name)))
         ELSE IF AttemptStep(o, cr.name) = "return err"
         THEN CreateReturn(in, PendingRecord(cr.plan, cr.name), FALSE, "error", <<>>)
         ELSE /\ tick' = FALSE
              /\ cr' = in
              /\ UNCHANGED <<tf, pc, elapsed, last, authvars>>
    /\ UNCHANGED <<sent, azTok>>

----------------------------------------------------------------------------
(* Read, Update, Delete, ImportState *)

\* an operation that did not go through CreateAzureSubscription finished: what
\* it leaves of the resource
Finished(op, in, newtf, err, warn, listed) ==
    /\ tf' = newtf
    /\ last' = [LastNone EXCEPT !.op = op, !.in = in, !.prior = tf,
                    !.err = err, !.warn = warn, !.resp = in.resp,
                    !.listed = listed,
                    !.streak = IF op = "Read" /\ warn
                               THEN IF last.streak < MaxStreak
                                    THEN last.streak + 1 ELSE MaxStreak
                               ELSE 0,
                    !.origin = IF op = "Read" /\ warn
                               THEN IF last.streak > 0 THEN last.origin ELSE tf
                               ELSE NullTF]
    /\ polls' = 0
    /\ azTok' = 0
    /\ UNCHANGED <<pc, cr, elapsed, tick>>

\* the same, for an operation whose calls are not followed into the Client
Finish(op, in, newtf, err, warn, listed) ==
    /\ Finished(op, in, newtf, err, warn, listed)
    /\ UNCHANGED authvars

\* the pending branch of Read, had it kept a GUID that Create discovered
ResolvedModel_keepsGuid(data, sub) ==
    [data EXCEPT !.id = Itoa(sub.ID),
                 !.guid = IF data.guid = "pending" THEN sub.SubscriptionID ELSE data.guid,
                 !.status = sub.Status, !.name = sub.FriendlyName]

\* Read, pending branch: the state written for the looked-up record
ResolvedModel(data, sub) ==
    [data EXCEPT !.id = Itoa(sub.ID), !.guid = sub.SubscriptionID,
                 !.status = sub.Status, !.name = sub.FriendlyName]

\* the normal branch of Read, had it also taken the ID of the fetched record
RefreshedModel_takesID(data, sub) ==
    [data EXCEPT !.id = Itoa(sub.ID), !.name = sub.FriendlyName,
                 !.guid = sub.SubscriptionID, !.status = sub.Status]

\* Read, normal branch: the state written for the fetched record
RefreshedModel(data, sub) ==
    [data EXCEPT !.name = sub.FriendlyName, !.guid = sub.SubscriptionID,
                 !.status = sub.Status]

\* Read, pending branch, when GetAzureSubscriptions comes back with o
ReadPendingOn(o) ==
    LET name == TrimPrefix(tf.id, PendingPrefix)
        r == FindAzureSubscriptionByName(o, name)
    IN
    /\ sent' = Attempted(o, Req("list", tf.plan, 0, <<>>))
    /\ IF r.err
       THEN Finished("Read", NoCr, tf, FALSE, TRUE, o)
       ELSE Finished("Read", NoCr, ResolvedModel(tf, r.sub), FALSE, FALSE, o)

ReadPending ==
    /\ IsPending(tf.id)
    /\ \E o \in ListOutcomes(tf.plan) :
         /\ ReadPendingOn(o)
         /\ UNCHANGED authvars

ReadNormal ==
    /\ ~IsPending(tf.id)
    /\ IF ~ParseID(tf.id).ok
       THEN /\ sent' = <<>>
            /\ Finish("Read", NoCr, tf, TRUE, FALSE, NoList)
       ELSE \E o \in DoOutcomes(UNION { SingleRecs(tf.plan, ParseID(tf.id).val, n)
                                          : n \in Names }) :
              /\ sent' = Attempted(o, Req("get", tf.plan, ParseID(tf.id).val, <<>>))
              /\ IF CallResult(o) = "nil"
                 THEN Finish("Read", NoCr, RefreshedModel(tf, Decoded(o)),
                             FALSE, FALSE, NoList)
                 ELSE Finish("Read", NoCr, tf, TRUE, FALSE, NoList)

Read ==
    /\ pc = "idle"
    /\ tf.present
    /\ (ReadPending \/ ReadNormal)

\* the record of an Update or Delete whose rename or cancel call met o: how
\* the answer came and its status
Answered(in, o) ==
    [in EXCEPT !.resp = [NoResp EXCEPT !.via = o.via, !.status = o.status]]

\* the same for a rename call, with the GUID and the status of the record
\* that RenameAzureSubscription returned to Update, if it returned one
Renamed(in, o) ==
    [in EXCEPT !.resp =
        [NoResp EXCEPT !.via = o.via, !.status = o.status,
            !.rec = IF CallResult(o) = "nil"
                    THEN [ZeroSub EXCEPT !.SubscriptionID = Decoded(o).SubscriptionID,
                                         !.Status = Decoded(o).Status]
                    ELSE ZeroSub]]

\* Update, after a successful rename: the state written
\* the state after a rename, had it taken GUID and status as answered
RenamedModel_asAnswered(state, planned, sub) ==
    [planned EXCEPT !.id = state.id, !.guid = sub.SubscriptionID,
                    !.status = sub.Status]

RenamedModel(state, planned, sub) ==
    [planned EXCEPT !.id = state.id,
        !.guid = IF sub.SubscriptionID # "" THEN sub.SubscriptionID ELSE state.guid,
        !.status = IF sub.Status # "" THEN sub.Status ELSE state.status]

\* Update, name unchanged: the state written
PreservedModel(state, planned) ==
    [planned EXCEPT !.id = state.id, !.guid = state.guid, !.status = state.status]

\* the pending guard of Update, had it warned and saved the plan
UpdatePending_writesPlan(state, planned) ==
    [err |-> FALSE, warn |-> TRUE, newtf |-> PreservedModel(state, planned)]

\* Update on a pending ID: the diagnostics and the state it leaves
UpdatePending(state, planned) ==
    [err |-> TRUE, warn |-> FALSE, newtf |-> state]

Update ==
    /\ pc = "idle"
    /\ tf.present
    /\ \E newName \in Names, tmo \in CreateTimeouts :
         LET planned == [tf EXCEPT !.name = newName, !.timeout = tmo]
             in == [NoCr EXCEPT !.plan = tf.plan, !.name = newName, !.timeout = tmo]
         IN
         IF IsPending(tf.id)
         THEN /\ sent' = <<>>
              /\ Finish("Update", in, UpdatePending(tf, planned).newtf,
                        UpdatePending(tf, planned).err,
                        UpdatePending(tf, planned).warn, NoList)
         ELSE IF ~ParseID(tf.id).ok
         THEN /\ sent' = <<>>
              /\ Finish("Update", in, tf, TRUE, FALSE, NoList)
         ELSE IF newName # tf.name
         THEN \E o \in DoOutcomes(SingleRecs(tf.plan, ParseID(tf.id).val, newName)) :
                /\ sent' = Attempted(o, Req("rename", tf.plan, ParseID(tf.id).val, newName))
                /\ IF CallResult(o) = "nil"
                   THEN Finish("Update", Renamed(in, o),
                               RenamedModel(tf, planned, Decoded(o)),
                               FALSE, FALSE, NoList)
                   ELSE Finish("Update", Renamed(in, o), tf, TRUE, FALSE, NoList)
         ELSE /\ sent' = <<>>
              /\ Finish("Update", in, PreservedModel(tf, planned), FALSE, FALSE, NoList)

\* Outcomes of CancelAzureSubscription: doRequest failed, or an HTTP status
CancelOutcomes ==
    { [via |-> v, status |-> 0] : v \in {"token", "transport"} }
    \cup { [via |-> "http", status |-> s] : s \in Statuses }

\* CancelAzureSubscription: err # nil
CancelFailed(o) == o.via # "http" \/ o.status < 200 \/ o.status >= 300

\* the pending branch of Delete, had it added an error like Update does
DeletePending_refuses(state) ==
    [err |-> TRUE, warn |-> FALSE]

\* Delete on a pending ID: the diagnostics it reports.  A Delete that
\* reports no error removes the resource from state.
DeletePending(state) ==
    [err |-> FALSE, warn |-> TRUE]

Delete ==
    /\ pc = "idle"
    /\ tf.present
    /\ IF IsPending(tf.id)
       THEN /\ sent' = <<>>
            /\ Finish("Delete", NoCr,
                      IF DeletePending(tf).err THEN tf ELSE NullTF,
                      DeletePending(tf).err, DeletePending(tf).warn, NoList)
       ELSE IF ~ParseID(tf.id).ok
       THEN /\ sent' = <<>>
            /\ Finish("Delete", NoCr, tf, TRUE, FALSE, NoList)
       ELSE \E o \in CancelOutcomes :
              /\ sent' = Attempted(o, Req("cancel", tf.plan, ParseID(tf.id).val, <<>>))
              /\ IF CancelFailed(o)
                 THEN Finish("Delete", Answered(NoCr, o), tf, TRUE, FALSE, NoList)
                 ELSE Finish("Delete", Answered(NoCr, o), NullTF, FALSE, FALSE, NoList)

RECURSIVE splitFrom(_, _, _, _)
splitFrom(id, i, result, current) ==
    IF i > Len(id) THEN Append(result, current)
    ELSE IF id[i] = ":" THEN splitFrom(id, i + 1, Append(result, current), <<>>)
    ELSE splitFrom(id, i + 1, result, Append(current, id[i]))

\* splitImportID, had it left out the empty parts
splitImportID_dropsEmptyParts(id) ==
    SelectSeq(splitFrom(id, 1, <<>>, <<>>), LAMBDA part : part # <<>>)

splitImportID(id) == splitFrom(id, 1, <<>>, <<>>)

\* composite keys handed to terraform import
ImportIDs ==
    { <<"7", ":", "5">>,
      <<"7", ":">> \o PendingPrefix \o <<"a">>,
      <<"7", ":", "x">>,
      <<"x", ":", "5">>,
      <<"7">>,
      <<"7", ":", "5", ":", "1">>,
      <<"+", "7", ":", "5">>,
      <<"7", ":">>,
      <<":", "5">>,
      MinInt64Magnitude \o <<":", "5">> }

\* the record of an Import of the composite key req.ID
Imported(key) == [NoCr EXCEPT !.name = key]

ImportState ==
    /\ pc = "idle"
    /\ ~tf.present
    /\ sent' = <<>>
    /\ \E key \in ImportIDs :
         LET idParts == splitImportID(key) IN
         IF Len(idParts) # 2 \/ ~ParseIntOK(idParts[1])
         THEN Finish("Import", Imported(key), tf, TRUE, FALSE, NoList)
         ELSE Finish("Import", Imported(key),
                     Model(idParts[2], AtoiVal(idParts[1]), <<>>, "", "", 0),
                     FALSE, FALSE, NoList)

----------------------------------------------------------------------------
(* The provider with the current client *)

Init ==
    /\ tf = NullTF
    /\ pc = "idle"
    /\ cr = NoCr
    /\ elapsed = 0
    /\ tick = FALSE
    /\ sent = <<>>
    /\ polls = 0
    /\ azTok = 0
    /\ last = LastNone
    /\ ClientBuilt(ClientConfig("", "", "", "", ""))

Next ==
    \/ Create
    \/ WaitTimePasses
    \/ WaitTimeout
    \/ WaitTick
    \/ Read
    \/ Update
    \/ Delete
    \/ ImportState

Spec == Init /\ [][Next]_vars

\* the provider under a caller that may cancel the ctx of a running Create
NextCtx == Next \/ CtxDone

SpecCtx == Init /\ [][NextCtx]_vars

----------------------------------------------------------------------------
(* The polling revision of the client and of Create: CreateAzureSubscription *)
(* takes the caller's timeout and, once accepted, pollForSubscription polls  *)
(* the billing API until the name is listed or the timeout fires.            *)

\* Create, "Determine timeout (default 10 minutes)", in seconds
CallerTimeout(minutes) ==
    (IF minutes <= 0 THEN DefaultCreateTimeout ELSE minutes) * 60

\* Create of the polling revision, "Map response to model"
CreateModelPolling(in, sub) ==
    Model(Itoa(sub.ID), in.plan, in.name, sub.SubscriptionID, sub.Status, in.timeout)

CreateReturnPolling(in, sub, err, poll, seen) ==
    CreateDone(in, sub, err, poll, seen, CreateModelPolling(in, sub), FALSE)

\* Create up to the point where pollForSubscription blocks in select
CreatePolling ==
    /\ pc = "idle"
    /\ ~tf.present
    /\ \E plan \in PlanIDs, name \in Names, tmo \in CreateTimeouts :
       \E o \in DoOutcomes(SingleRecs(plan, MaxBillingID, name)) :
         LET in == [plan |-> plan, name |-> name, timeout |-> tmo,
                    wait |-> CallerTimeout(tmo), resp |-> o, hit |-> <<>>,
                    ctxDone |-> FALSE, att |-> "none"]
         IN
         /\ sent' = Attempted(o, Req("create", plan, 0, name))
         /\ polls' = 0
         /\ azTok' = 0
         /\ IF CallResult(o) = "accepted"
            THEN /\ pc' = "billWait"
                 /\ cr' = in
                 /\ elapsed' = 0
                 /\ tick' = FALSE
                 /\ last' = LastNone
                 /\ UNCHANGED <<tf, authvars>>
            ELSE IF CallResult(o) = "error"
            THEN CreateReturnPolling(in, ZeroSub, TRUE, "none", <<>>)
            ELSE CreateReturnPolling(in, Decoded(o), FALSE, "none", <<>>)

\* time passes while pollForSubscription is blocked in select
pollForSubscriptionWait ==
    /\ pc = "billWait"
    /\ elapsed < cr.wait
    /\ elapsed' = elapsed + BillingPollInterval
    /\ tick' = TRUE
    /\ UNCHANGED <<tf, pc, cr, sent, polls, azTok, last, authvars>>

\* case <-timeoutCh: return nil, fmt.Errorf("timeout waiting ...")
pollForSubscriptionTimeout ==
    /\ pc = "billWait"
    /\ elapsed >= cr.wait
    /\ CreateReturnPolling(cr, ZeroSub, TRUE, "timeout", <<>>)
    /\ UNCHANGED <<sent, polls, azTok>>

\* case <-ticker.C: list the plan and look for the name
pollForSubscriptionTick ==
    /\ pc = "billWait"
    /\ tick
    /\ polls' = polls + 1
    /\ tick' = FALSE
    /\ \E l \in ListOutcomes(cr.plan) :
         IF l.ok /\ FirstIndex(l.items, "FriendlyName", cr.name) # 0
         THEN /\ pc' = "billGet"
              /\ cr' = [cr EXCEPT !.hit =
                           <<l.items[FirstIndex(l.items, "FriendlyName", cr.name)]>>]
         ELSE UNCHANGED <<pc, cr>>
    /\ UNCHANGED <<tf, elapsed, last, sent, azTok, authvars>>

\* return c.GetAzureSubscription(azurePlanID, sub.ID) for the first match
pollForSubscriptionGet ==
    /\ pc = "billGet"
    /\ LET sub == cr.hit[1] IN
       \E o \in DoOutcomes(SingleRecs(cr.plan, sub.ID, cr.name)) :
         /\ sent' = sent \o Attempted(o, Req("get", cr.plan, sub.ID, <<>>))
         /\ IF CallResult(o) = "nil"
            THEN CreateReturnPolling(cr, Decoded(o), FALSE, "found", cr.hit)
            ELSE CreateReturnPolling(cr, ZeroSub, TRUE, "found", cr.hit)
    /\ UNCHANGED <<polls, azTok>>

NextPolling ==
    \/ CreatePolling
    \/ pollForSubscriptionWait
    \/ pollForSubscriptionTimeout
    \/ pollForSubscriptionTick
    \/ pollForSubscriptionGet

SpecPolling == Init /\ [][NextPolling]_vars

----------------------------------------------------------------------------
(* Properties of CreateAzureSubscription *)

\* the billing create call was answered 202 with an empty body
Accepted(resp) ==
    resp.via = "http" /\ resp.status = 202 /\ resp.kind = "empty"

\* the last operation was a Create whose create call was accepted
CreateAccepted == pc = "idle" /\ last.op = "Create" /\ Accepted(last.resp)

\* C1: when the create call is answered 202 with an empty body and the cloud
\* poller finds a subscription whose display name is the requested name
\* before the wait ends, CreateAzureSubscription returns no error and the
\* record (ID 0, requested name, the GUID of that subscription, "active",
\* requested plan), whose GUID is not the literal "pending".
C1_FoundReturnsActive ==
    (CreateAccepted /\ last.poll = "found") =>
        /\ ~last.retErr
        /\ \E i \in 1..Len(last.seen) :
             /\ last.seen[i].displayName = last.in.name
             /\ last.ret.SubscriptionID = last.seen[i].subscriptionId
        /\ last.ret.SubscriptionID # "pending"
        /\ last.ret.Status = "active"
        /\ last.ret.ID = 0
        /\ last.ret.FriendlyName = last.in.name
        /\ last.ret.AzurePlanID = last.in.plan

\* C1 witness: a Create that found the name on a later poll than the first
C1_Witness ==
    /\ CreateAccepted
    /\ last.poll = "found"
    /\ polls >= 2
    /\ last.ret.SubscriptionID = "g2"

\* C2: when the create call is answered 202 with an empty body and the cloud
\* poller has not seen the name when the wait ends, CreateAzureSubscription
\* returns no error and a record with status "provisioning", SubscriptionID
\* "pending" and ID 0.
C2_TimeoutReturnsPending ==
    (CreateAccepted /\ last.poll = "timeout") =>
        /\ ~last.retErr
        /\ last.ret.Status = "provisioning"
        /\ last.ret.SubscriptionID = "pending"
        /\ last.ret.ID = 0

\* C2 witness: a Create whose poll listed Azure and ran into the timeout
C2_Witness ==
    /\ CreateAccepted
    /\ last.poll = "timeout"
    /\ polls >= 1
    /\ tf.present

\* C3: once the create call has been accepted (202, empty body),
\* CreateAzureSubscription never returns an error, whatever happens during
\* discovery; it returns an error only when the create call itself failed.
C3_AcceptedNeverErrors ==
    (pc = "idle" /\ last.op = "Create" /\ last.retErr) => ~Accepted(last.resp)

\* the create call was answered 2xx with a JSON body
Materialized(resp) ==
    /\ resp.via = "http"
    /\ resp.kind = "json"
    /\ resp.status >= 200
    /\ resp.status < 300

\* C4: when the create call answers with a materialized record (2xx with a
\* JSON body), CreateAzureSubscription returns exactly that record, acquires
\* no cloud token and sends no polling request to either backend: the create
\* request is the only request of the operation.
C4_RecordReturnedWithoutPolling ==
    (pc = "idle" /\ last.op = "Create" /\ Materialized(last.resp)) =>
        /\ ~last.retErr
        /\ last.ret = last.resp.rec
        /\ azTok = 0
        /\ polls = 0
        /\ sent = <<Req("create", last.in.plan, 0, last.in.name)>>

\* C4 witness: a record that arrived with status 202 was returned and stored
C4_Witness ==
    /\ pc = "idle"
    /\ last.op = "Create"
    /\ Materialized(last.resp)
    /\ last.resp.status = 202
    /\ last.ret.ID = MaxBillingID
    /\ tf.id = Itoa(MaxBillingID)

\* C5: the cloud poller is invoked with the timeout the caller supplied
\* (create_timeout minutes, the default when unset), so the wait of Create
\* is bounded by it.
C5_PollerGivenCallerTimeout ==
    pc = "armWait" => (cr.wait = CallerTimeout(cr.timeout) /\ elapsed <= CallerTimeout(cr.timeout))

----------------------------------------------------------------------------
(* Properties of the resource operations *)

\* the last operation was op and started from a pending-marker ID
OnPending(op) == pc = "idle" /\ last.op = op /\ IsPending(last.prior.id)

\* C6: Update on a resource whose stored ID is a pending marker ends with an
\* error diagnostic and leaves the stored state unchanged, for every planned
\* name.
C6_UpdatePendingRefused ==
    OnPending("Update") => (last.err /\ tf = last.prior)

\* C6 witness: a refused Update that planned another name and another timeout
C6_Witness ==
    /\ OnPending("Update")
    /\ last.in.name # last.prior.name
    /\ last.in.timeout # last.prior.timeout
    /\ last.err

C8_MutationsCarryStoredID ==
    \A i \in 1..Len(sent) :
        sent[i].ep \in {"rename", "cancel"} =>
            /\ pc = "idle"
            /\ last.op \in {"Update", "Delete"}
            /\ ~IsPending(last.prior.id)
            /\ AtoiOK(last.prior.id)
            /\ sent[i].id = AtoiVal(last.prior.id)
            /\ sent[i].plan = last.prior.plan

\* C8 witness: a record resolved to the billing ID was renamed under that ID
C8_Witness ==
    /\ pc = "idle"
    /\ last.op = "Update"
    /\ sent = <<Req("rename", last.prior.plan, MaxBillingID, last.in.name)>>
    /\ last.prior.id = Itoa(MaxBillingID)
    /\ last.prior.guid = "g2"

\* the billing listing answered and holds a record named name
Listed(o, name) == o.ok /\ \E i \in 1..Len(o.items) : o.items[i].FriendlyName = name

\* C9: Read on a pending record whose name the billing API does not list
\* keeps the prior state (ID, GUID, status, name), reports a warning and no
\* error and sends nothing but the listing; repeated, every Read of the
\* streak leaves the state the streak started from.
C9_UnlistedReadKeepsState ==
    (/\ OnPending("Read")
     /\ last.listed.ok
     /\ ~Listed(last.listed, TrimPrefix(last.prior.id, PendingPrefix))) =>
        /\ tf = last.prior
        /\ last.warn
        /\ ~last.err
        /\ \A i \in 1..Len(sent) : sent[i].ep = "list"
        /\ last.streak >= 1
        /\ tf = last.origin

\* C9 witness: the second Read in a row that met a non-empty listing without
\* the name
C9_Witness ==
    /\ OnPending("Read")
    /\ last.listed.ok
    /\ Len(last.listed.items) > 0
    /\ ~Listed(last.listed, TrimPrefix(last.prior.id, PendingPrefix))
    /\ last.streak >= 2

\* C10: Read on a pending record whose name the billing API lists replaces
\* the stored ID by the decimal numeric ID of a listed record with that name
\* and overwrites GUID, status and name with that record's values, whatever
\* Create had stored.
C10_ListedReadResolves ==
    (/\ OnPending("Read")
     /\ Listed(last.listed, TrimPrefix(last.prior.id, PendingPrefix))) =>
        /\ ~last.err
        /\ \E i \in 1..Len(last.listed.items) :
             LET sub == last.listed.items[i] IN
             /\ sub.FriendlyName = TrimPrefix(last.prior.id, PendingPrefix)
             /\ tf = [last.prior EXCEPT !.id = Itoa(sub.ID),
                                        !.guid = sub.SubscriptionID,
                                        !.status = sub.Status,
                                        !.name = sub.FriendlyName]

\* C10 witness: a record created with the cloud GUID g1 and status active is
\* resolved to the billing record 42 / g2 / cancelled
C10_Witness ==
    /\ OnPending("Read")
    /\ last.prior.guid = "g1"
    /\ last.prior.status = "active"
    /\ tf.id = Itoa(MaxBillingID)
    /\ tf.guid = "g2"
    /\ tf.status = "cancelled"

----------------------------------------------------------------------------
(* Properties of the resolved record *)

\* the stored ID is a numeric ID: not a pending marker, and strconv.Atoi
\* accepts it
NumericID(state) == state.present /\ ~IsPending(state.id) /\ AtoiOK(state.id)

\* C11: once the stored ID is a numeric ID, no Read and no Update changes
\* the stored ID, removes the resource from state or turns the ID into a
\* pending marker, whatever the billing API answers.
C11_ResolutionPermanent ==
    (pc = "idle" /\ last.op \in {"Read", "Update"} /\ NumericID(last.prior)) =>
        (tf.present /\ tf.id = last.prior.id /\ NumericID(tf))

\* C11 witness: a record that a Read resolved to the billing ID was since
\* refreshed by a Read that changed its name and GUID, under the same ID
C11_Witness ==
    /\ pc = "idle"
    /\ last.op = "Read"
    /\ ~last.err
    /\ last.prior.id = Itoa(MaxBillingID)
    /\ last.prior.guid = "g2"
    /\ tf.name # last.prior.name
    /\ tf.guid # last.prior.guid
    /\ tf.id = Itoa(MaxBillingID)

----------------------------------------------------------------------------
(* Repeated refresh of a pending record *)

\* a Read of a pending record that the billing API answers with a listing
\* holding the pending name (the token was obtained, the call succeeded)
ReadListed ==
    /\ pc = "idle"
    /\ tf.present
    /\ ReadPending
    /\ last'.listed.ok
    /\ \E i \in 1..Len(last'.listed.items) :
         last'.listed.items[i].FriendlyName = TrimPrefix(tf.id, PendingPrefix)

\* the states in which Create leaves a record the billing API accepted
\* without materializing it (ID 0): the cloud GUID found, or not
AcceptedModels ==
    UNION { { CreateModel([plan |-> p, name |-> n, timeout |-> t], sub)
                : sub \in {PendingRecord(p, n)}
                          \cup { ActiveRecord(p, n, g) : g \in GUIDs } }
            : p \in PlanIDs, n \in Names, t \in CreateTimeouts }

\* the resource after an apply: absent, or as an accepted Create left it
InitRefresh ==
    /\ tf \in {NullTF} \cup AcceptedModels
    /\ pc = "idle"
    /\ cr = NoCr
    /\ elapsed = 0
    /\ tick = FALSE
    /\ sent = <<>>
    /\ polls = 0
    /\ azTok = 0
    /\ last = LastNone
    /\ ClientBuilt(ClientConfig("", "", "", "", ""))

\* the operations Terraform runs on a stored or imported record
NextRefresh ==
    \/ Read
    \/ Update
    \/ Delete
    \/ ImportState

\* Terraform keeps refreshing, and the billing API does not withhold the
\* record for ever: while a record is pending, a Read answered with a listing
\* that holds its name eventually happens.
SpecRefresh == InitRefresh /\ [][NextRefresh]_vars /\ WF_vars(ReadListed)

\* the last operation resolved a pending record to the ID of a listed record
\* with the pending name
ResolvedByRead ==
    /\ OnPending("Read")
    /\ NumericID(tf)
    /\ \E i \in 1..Len(last.listed.items) :
         /\ last.listed.items[i].FriendlyName = TrimPrefix(last.prior.id, PendingPrefix)
         /\ tf.id = Itoa(last.listed.items[i].ID)

\* C12: a pending record whose name the billing API lists from some point on
\* is eventually resolved by the repeated Reads: the stored ID becomes the
\* numeric ID of the listed subscription with that name, unless a Delete
\* removed the record from state first.
C12_PendingEventuallyResolved ==
    (pc = "idle" /\ tf.present /\ IsPending(tf.id)) ~> (ResolvedByRead \/ ~tf.present)

\* C12 witness: a record that two Reads in a row had found still pending is
\* resolved by the next Read
C12_Witness ==
    /\ ResolvedByRead
    /\ last.prior.guid = "pending"
    /\ tf.id = Itoa(MaxBillingID)
    /\ tf.guid = "g2"

----------------------------------------------------------------------------
(* Client: internal/client/auth.go *)

MaxShortWaits == 2    \* waits of HalfMinute counted, before and after the long wait

Margin == 60          \* -60*time.Second: the buffer before the expiry
CLILifetime == 3000   \* 50*time.Minute, in seconds
HalfMinute == 30
CLIWindow == CLILifetime - Margin - HalfMinute

Tokens == {"", "t1", "t2"}

ExpiresIns == {120}       \* ExpiresIn of a token answer, seconds

\* configurations of the provider: each billing credential present or not,
\* and the Service-Principal triple complete, partial or absent
Configs ==
    { ClientConfig("user", "pw", "id", "secret", "tenant"),
      ClientConfig("user", "", "id", "secret", ""),
      ClientConfig("", "pw", "", "", ""),
      ClientConfig("", "", "id", "secret", "tenant") }

\* Outcomes of a POST to a token endpoint and of reading its body
TokenOutcomes ==
    { [via |-> "transport", status |-> 0, kind |-> "none", tok |-> "", expiresIn |-> 0] }
    \cup { [via |-> "http", status |-> 200, kind |-> k, tok |-> "", expiresIn |-> 0]
             : k \in {"unreadable", "garbage"} }
    \cup { [via |-> "http", status |-> s, kind |-> "json", tok |-> "t1", expiresIn |-> e]
             : s \in {204, 401}, e \in ExpiresIns }
    \cup { [via |-> "http", status |-> 200, kind |-> "json", tok |-> t, expiresIn |-> e]
             : t \in Tokens, e \in ExpiresIns }

\* requestToken and getAzureTokenWithServicePrincipal: err # nil
TokenFailed(o) ==
    \/ o.via = "transport"
    \/ o.kind = "unreadable"
    \/ o.status # 200
    \/ o.kind = "garbage"

\* Outcomes of `az account get-access-token`
CLIOutcomes ==
    { [via |-> "exec", status |-> 0, kind |-> k, tok |-> "", expiresIn |-> 0]
        : k \in {"cmdfail", "garbage"} }
    \cup { [via |-> "exec", status |-> 0, kind |-> "json", tok |-> t, expiresIn |-> 0]
             : t \in Tokens }

\* getAzureTokenWithCLI: err # nil
CLIFailed(o) == o.kind \in {"cmdfail", "garbage"}

\* the cached-token test, had the 60 second buffer been left out
CacheValid_noMargin(tok, exp, t) == tok # "" /\ t < exp

\* c.token != "" && time.Now().Before(c.tokenExp.Add(-60*time.Second))
CacheValid(tok, exp, t) == tok # "" /\ t < exp - Margin

\* the grant choice, had it asked for either credential instead of both
BillingGrant_eitherCredential(cfg) ==
    IF cfg.Username # "" \/ cfg.Password # "" THEN "password" ELSE "client_credentials"

\* getToken, "Determine which grant type to use"
BillingGrant(cfg) ==
    IF cfg.Username # "" /\ cfg.Password # "" THEN "password" ELSE "client_credentials"

\* the form getTokenWithPassword / getTokenWithClientCredentials posts
BillingRequest(cfg) ==
    [ep |-> "crayon",
     form |-> IF BillingGrant(cfg) = "password"
              THEN { <<"grant_type", "password">>, <<"username", cfg.Username>>,
                     <<"password", cfg.Password>>, <<"scope", "CustomerApi">> }
              ELSE { <<"grant_type", "client_credentials">>,
                     <<"scope", "CustomerApi">> }]

\* the strategy choice, had it not asked for the tenant id
AzureStrategy_ignoresTenant(cfg) ==
    IF cfg.AzureClientID # "" /\ cfg.AzureClientSecret # "" THEN "aad" ELSE "az"

\* getAzureToken, "Try Service Principal auth first": the flow that is run
AzureStrategy(cfg) ==
    IF cfg.AzureClientID # "" /\ cfg.AzureClientSecret # "" /\ cfg.AzureTenantID # ""
    THEN "aad" ELSE "az"

\* the request of getAzureTokenWithServicePrincipal, or the command of
\* getAzureTokenWithCLI
AzureRequest(cfg) ==
    IF AzureStrategy(cfg) = "aad"
    THEN [ep |-> "aad",
          form |-> { <<"tenant", cfg.AzureTenantID>>,
                     <<"client_id", cfg.AzureClientID>>,
                     <<"client_secret", cfg.AzureClientSecret>>,
                     <<"grant_type", "client_credentials">>,
                     <<"scope", "https://management.azure.com/.default">> }]
    ELSE [ep |-> "az", form |-> { <<"resource", "https://management.azure.com">> }]

\* the cache branch of getToken, had it asked the endpoint all the same
getTokenHit_asksAnyway(c, cfg) ==
    [ret |-> c.token, reqs |-> <<BillingRequest(cfg)>>]

\* getToken, cache branch: return c.token, nil
getTokenHit(c, cfg) == [ret |-> c.token, reqs |-> <<>>]

\* getAzureToken, cache branch: return c.azureToken, nil
getAzureTokenHit(c, cfg) == [ret |-> c.azureToken, reqs |-> <<>>]

\* the error return, had it dropped the cached token
AfterFailure_dropsToken(c) == ZeroCache

\* if err != nil { return "", err }: the cache a failed acquisition leaves
AfterFailure(c) == c

\* the store of getToken, had it written the expiry of both tokens
StoreBilling_bothExpiries(c, tok, exp) ==
    [c EXCEPT !.token = tok, !.tokenExp = exp, !.azureTokenExp = exp]

\* c.token = token.AccessToken; c.tokenExp = time.Now().Add(ExpiresIn)
StoreBilling(c, tok, exp) == [c EXCEPT !.token = tok, !.tokenExp = exp]

\* c.azureToken = tokenResp.AccessToken; c.azureTokenExp = ...
StoreAzure(c, tok, exp) == [c EXCEPT !.azureToken = tok, !.azureTokenExp = exp]

\* the expiry the cache holds for one token
ExpOf(c, kind) == IF kind = "billing" THEN c.tokenExp ELSE c.azureTokenExp

\* the value the cache holds for one token
TokenOf(c, kind) == IF kind = "billing" THEN c.token ELSE c.azureToken

\* the latest finished call, as the next call or a wait finds it
Earlier ==
    IF tcall.kind = "none" THEN tcall.first
    ELSE [kind |-> tcall.kind, err |-> tcall.err, ret |-> tcall.ret,
          exp |-> ExpOf(cache, tcall.kind)]

\* a get-token call returned (ret, err); the Client is left with newcache
AuthDone(kind, hit, reqs, resp, ret, err, newcache) ==
    /\ cache' = newcache
    /\ tcall' = [kind |-> kind, at |-> now, before |-> cache, hit |-> hit,
                 reqs |-> reqs, resp |-> resp, ret |-> ret, err |-> err,
                 first |-> Earlier]
    /\ UNCHANGED <<now, config, thr, tag>>

\* a get-token call that is not part of a resource operation returned
AuthReturn(kind, hit, reqs, resp, ret, err, newcache) ==
    /\ AuthDone(kind, hit, reqs, resp, ret, err, newcache)
    /\ UNCHANGED resvars

\* getToken on the cache c at time t, when its token request, if it sends
\* one, is answered o: what it did and returned, and the cache it leaves
getTokenCall(c, cfg, t, o) ==
    IF CacheValid(c.token, c.tokenExp, t)
    THEN [hit |-> TRUE, reqs |-> getTokenHit(c, cfg).reqs, resp |-> NoTokenResp,
          ret |-> getTokenHit(c, cfg).ret, err |-> FALSE, cache |-> c]
    ELSE IF TokenFailed(o)
    THEN [hit |-> FALSE, reqs |-> <<BillingRequest(cfg)>>, resp |-> o,
          ret |-> "", err |-> TRUE, cache |-> AfterFailure(c)]
    ELSE [hit |-> FALSE, reqs |-> <<BillingRequest(cfg)>>, resp |-> o,
          ret |-> StoreBilling(c, o.tok, t + o.expiresIn).token, err |-> FALSE,
          cache |-> StoreBilling(c, o.tok, t + o.expiresIn)]

\* the answers getToken can meet: none is asked for on the cache branch
TokenAnswers(c, t) ==
    IF CacheValid(c.token, c.tokenExp, t) THEN {NoTokenResp} ELSE TokenOutcomes

\* getToken, called by one goroutine at a time
getToken ==
    \E o \in TokenAnswers(cache, now) :
      LET r == getTokenCall(cache, config, now, o) IN
      AuthReturn("billing", r.hit, r.reqs, r.resp, r.ret, r.err, r.cache)

\* getAzureToken, called by one goroutine at a time
\* getAzureToken, returning to its caller by Return
getAzureTokenTo(Return(_, _, _, _, _, _, _)) ==
    IF CacheValid(cache.azureToken, cache.azureTokenExp, now)
    THEN Return("azure", TRUE, getAzureTokenHit(cache, config).reqs, NoTokenResp,
                getAzureTokenHit(cache, config).ret, FALSE, cache)
    ELSE IF AzureStrategy(config) = "aad"
    THEN \E o \in TokenOutcomes :
           IF TokenFailed(o)
           THEN Return("azure", FALSE, <<AzureRequest(config)>>, o,
                       "", TRUE, AfterFailure(cache))
           ELSE Return("azure", FALSE, <<AzureRequest(config)>>, o,
                       o.tok, FALSE,
                       StoreAzure(cache, o.tok, now + o.expiresIn))
    ELSE \E o \in CLIOutcomes :
           IF CLIFailed(o)
           THEN Return("azure", FALSE, <<AzureRequest(config)>>, o,
                       "", TRUE, AfterFailure(cache))
           ELSE Return("azure", FALSE, <<AzureRequest(config)>>, o,
                       o.tok, FALSE,
                       StoreAzure(cache, o.tok, now + CLILifetime))

getAzureToken == getAzureTokenTo(AuthReturn)

\* half a minute passes between two calls
ShortWait ==
    /\ (now % CLIWindow) + HalfMinute <= MaxShortWaits * HalfMinute
    /\ now' = now + HalfMinute
    /\ tcall' = [NoCall EXCEPT !.first = Earlier]
    /\ UNCHANGED <<config, cache, thr, tag, resvars>>

\* the lifetime of a login-session token, less the buffer and half a minute,
\* passes between two calls, once
LongWait ==
    /\ now < CLIWindow
    /\ now' = now + CLIWindow
    /\ tcall' = [NoCall EXCEPT !.first = Earlier]
    /\ UNCHANGED <<config, cache, thr, tag, resvars>>

\* the resource part of the state, at rest
ResourceAtRest ==
    /\ tf = NullTF
    /\ pc = "idle"
    /\ cr = NoCr
    /\ elapsed = 0
    /\ tick = FALSE
    /\ sent = <<>>
    /\ polls = 0
    /\ azTok = 0
    /\ last = LastNone

InitAuth == ResourceAtRest /\ \E cfg \in Configs : ClientBuilt(cfg)

NextAuth ==
    \/ getToken
    \/ getAzureToken
    \/ ShortWait
    \/ LongWait

SpecAuth == InitAuth /\ [][NextAuth]_vars

----------------------------------------------------------------------------
(* Properties of the token cache *)

\* the last call was a get-token call for token kind
Called(kind) == tcall.kind = kind

\* at the time of the last call the cached expiry, less the buffer, had come
Stale == tcall.at >= ExpOf(tcall.before, tcall.kind) - Margin

\* C13: a call of getToken or getAzureToken made at or after the cached
\* expiry minus 60 seconds does not return from the cache: it issues one
\* acquisition and, when it succeeds, returns the token of that answer.
C13_StaleTokenNotReused ==
    ((Called("billing") \/ Called("azure")) /\ Stale) =>
        /\ ~tcall.hit
        /\ Len(tcall.reqs) = 1
        /\ ~tcall.err => (tcall.resp.kind = "json" /\ tcall.ret = tcall.resp.tok)

\* C13 witness: getToken called exactly 60 seconds before the expiry of a
\* cached token returned another, freshly acquired token
C13_Witness ==
    /\ Called("billing")
    /\ tcall.before.token = "t1"
    /\ tcall.at = tcall.before.tokenExp - Margin
    /\ ~tcall.err
    /\ tcall.ret = "t2"
    /\ cache.token = "t2"

\* the last call was made before the cached expiry minus 60 seconds
InWindow == tcall.at < ExpOf(tcall.before, tcall.kind) - Margin

\* the call before the last one was for the same token, succeeded and left
\* the expiry that the last call found: both calls fall before that expiry
\* minus 60 seconds when the last one does
SameWindow ==
    /\ tcall.first.kind = tcall.kind
    /\ ~tcall.first.err
    /\ tcall.first.exp = ExpOf(tcall.before, tcall.kind)

AcquisitionFailed ==
    \/ tcall.resp.via = "transport"
    \/ tcall.resp.via = "http" /\ (tcall.resp.status < 200 \/ tcall.resp.status >= 300)
    \/ tcall.resp.via = "http" /\ tcall.resp.kind \in {"unreadable", "garbage"}
    \/ tcall.resp.via = "exec" /\ tcall.resp.kind \in {"cmdfail", "garbage"}

\* C16: a get-token call whose acquisition fails returns an error, has
\* issued that one request and no second one, and leaves both cached tokens
\* and both expiries as they were before the call.
C16_FailureKeepsCache ==
    ((Called("billing") \/ Called("azure")) /\ AcquisitionFailed) =>
        /\ tcall.err
        /\ Len(tcall.reqs) = 1
        /\ cache = tcall.before

\* C16 witness: the refresh of an expired billing token was answered 401,
\* and the expired token is still cached
C16_Witness ==
    /\ Called("billing")
    /\ tcall.resp.status = 401
    /\ tcall.err
    /\ tcall.before.token = "t1"
    /\ cache.token = "t1"
    /\ cache.azureToken # ""

\* the form of the password grant and of the client-credentials grant
PasswordForm ==
    { <<"grant_type", "password">>, <<"username", config.Username>>,
      <<"password", config.Password>>, <<"scope", "CustomerApi">> }

ClientCredentialsForm ==
    { <<"grant_type", "client_credentials">>, <<"scope", "CustomerApi">> }

C18_OneAzureStrategy ==
    (Called("azure") /\ ~tcall.hit) =>
        /\ Len(tcall.reqs) = 1
        /\ tcall.reqs[1].ep =
              IF /\ config.AzureClientID # ""
                 /\ config.AzureClientSecret # ""
                 /\ config.AzureTenantID # ""
              THEN "aad" ELSE "az"

\* C18 witness: a Service-Principal request that failed was not followed by
\* the login-session command
C18_Witness ==
    /\ Called("azure")
    /\ config.AzureTenantID # ""
    /\ tcall.err
    /\ tcall.resp.via = "transport"
    /\ Len(tcall.reqs) = 1
    /\ tcall.reqs[1].ep = "aad"

\* C19: a getToken call, successful or not, leaves the cached cloud token
\* and its expiry as they were, and a getAzureToken call leaves the cached
\* billing token and its expiry as they were.
C19_CachesIndependent ==
    /\ Called("billing") =>
          /\ cache.azureToken = tcall.before.azureToken
          /\ cache.azureTokenExp = tcall.before.azureTokenExp
    /\ Called("azure") =>
          /\ cache.token = tcall.before.token
          /\ cache.tokenExp = tcall.before.tokenExp

\* C19 witness: the billing token was replaced half a minute after the
\* cloud token was acquired, and the cloud entry is untouched
C19_Witness ==
    /\ Called("billing")
    /\ ~tcall.err
    /\ cache.token # tcall.before.token
    /\ cache.tokenExp # tcall.before.tokenExp
    /\ cache.azureToken = "t1"
    /\ cache.azureTokenExp < cache.tokenExp
    /\ cache.azureTokenExp > 0

----------------------------------------------------------------------------
(* getToken called by the goroutines of concurrent resource operations.   *)
(* The Client has no lock: the steps below are the reads and writes of    *)
(* getToken in program order, interleaved between the callers.            *)

MaxAcquisitions == 3    \* token answers that are counted

\* line 147: the cache test; on a hit the caller returns c.token, otherwise
\* it goes on to post its token request
getTokenCheck ==
    \E c \in Callers :
      /\ thr[c].pc = "idle"
      /\ IF CacheValid(cache.token, cache.tokenExp, now)
         THEN thr' = [thr EXCEPT ![c].seen = <<tag.token, tag.tokenExp>>]
         ELSE thr' = [thr EXCEPT ![c].pc = "request", ![c].seen = <<>>]
      /\ UNCHANGED <<now, config, cache, tcall, tag, resvars>>

\* lines 155-165: the token request is answered; on an error the caller
\* returns it
getTokenRequest ==
    \E c \in Callers :
      /\ thr[c].pc = "request"
      /\ tag.issued < MaxAcquisitions
      /\ \E o \in TokenOutcomes :
           IF TokenFailed(o)
           THEN /\ thr' = [thr EXCEPT ![c].pc = "idle"]
                /\ UNCHANGED tag
           ELSE /\ thr' = [thr EXCEPT ![c].pc = "store", ![c].resp = o,
                                      ![c].acq = tag.issued + 1]
                /\ tag' = [tag EXCEPT !.issued = tag.issued + 1]
      /\ UNCHANGED <<now, config, cache, tcall, resvars>>

\* line 167: c.token = token.AccessToken
getTokenStore ==
    \E c \in Callers :
      /\ thr[c].pc = "store"
      /\ cache' = [cache EXCEPT !.token = thr[c].resp.tok]
      /\ tag' = [tag EXCEPT !.token = thr[c].acq]
      /\ thr' = [thr EXCEPT ![c].pc = "storeExp"]
      /\ UNCHANGED <<now, config, tcall, resvars>>

\* line 168: c.tokenExp = time.Now().Add(ExpiresIn); then return c.token
getTokenStoreExp ==
    \E c \in Callers :
      /\ thr[c].pc = "storeExp"
      /\ cache' = [cache EXCEPT !.tokenExp = now + thr[c].resp.expiresIn]
      /\ tag' = [tag EXCEPT !.tokenExp = thr[c].acq]
      /\ thr' = [thr EXCEPT ![c].pc = "idle", ![c].resp = NoTokenResp, ![c].acq = 0]
      /\ UNCHANGED <<now, config, tcall, resvars>>

NextShared ==
    \/ getTokenCheck
    \/ getTokenRequest
    \/ getTokenStore
    \/ getTokenStoreExp
    \/ ShortWait

SpecShared == InitAuth /\ [][NextShared]_vars

\* the callers that are acquiring a billing token
Refreshing == { c \in Callers : thr[c].pc # "idle" }

\* C15: with callers sharing one Client, at most one refresh of the billing
\* token is in flight at a time, and no caller's cache branch returns on a
\* token value paired with the expiry of another acquisition.
C15_AcquisitionSerialized ==
    /\ Cardinality(Refreshing) <= 1
    /\ \A c \in Callers :
         thr[c].seen # <<>> => thr[c].seen[1] = thr[c].seen[2]

----------------------------------------------------------------------------
(* Termination of WaitForAzureSubscription *)

\* Create and the loop it blocks in
NextWait ==
    \/ Create
    \/ WaitTimePasses
    \/ WaitTimeout
    \/ WaitTick

\* time does not stop, and a select with a ready channel proceeds
SpecWait ==
    Init /\ [][NextWait]_vars /\ WF_vars(WaitTimePasses) /\ WF_vars(WaitTimeout)

\* WaitForAzureSubscription has returned: with the timeout error, or with the
\* GUID of a listed subscription
WaitReturned ==
    /\ pc = "idle"
    /\ last.op = "Create"
    /\ last.poll \in {"timeout", "found"}

\* C20: WaitForAzureSubscription always returns: whatever the listing
\* attempts answer (transport error, unreadable body, non-200 status,
\* undecodable body, list without the name), the loop ends with the timeout
\* error once the deadline has passed, unless a listing held the name before.
C20_WaitTerminates == (pc = "armWait") ~> WaitReturned

\* C20 witness: the loop polled at every tick up to the deadline, never saw
\* the name and returned the timeout error
C20_Witness ==
    /\ pc = "idle"
    /\ last.op = "Create"
    /\ last.poll = "timeout"
    /\ polls = AzureWaitTimeout \div PollInterval

----------------------------------------------------------------------------
(* Properties of the polling loop of WaitForAzureSubscription *)

\* C21: once the deadline of the cloud polling loop has passed, the loop
\* neither starts another sleep interval nor issues another listing request.
C21_NothingAfterDeadline ==
    [][(pc = "armWait" /\ TimeoutReady(elapsed, cr.wait)) =>
           (elapsed' <= elapsed /\ polls' # polls + 1)]_vars

\* C22: a cancellation or deadline that the caller signals through the ctx
\* of Create before the timeout of the cloud polling loop stops the loop:
\* the loop does not run on to its own timeout.
C22_CancelStopsPoll ==
    (pc = "idle" /\ last.op = "Create" /\ last.in.ctxDone) => last.poll # "timeout"

\* the listing attempts that fail: transport error, body-read error, status
\* other than 200, undecodable body
FailedAttempts == {"transport", "readerr", "non200", "badjson"}

\* C23: a listing attempt of the cloud polling loop that fails never ends the
\* loop: after it the loop is still polling, and a loop whose latest attempt
\* failed has ended only by its deadline.
C23_FailedAttemptContinues ==
    /\ cr.att \in FailedAttempts => pc = "armWait"
    /\ (pc = "idle" /\ last.op = "Create" /\ last.in.att \in FailedAttempts) =>
           last.poll = "timeout"

\* C23 witness: the second or a later attempt met an undecodable body before
\* the deadline, and the loop is still polling
C23_Witness ==
    /\ pc = "armWait"
    /\ cr.att = "badjson"
    /\ polls >= 2
    /\ elapsed < cr.wait

----------------------------------------------------------------------------
(* Properties of the name lookups *)

\* i is the first position of list whose field f equals name
IsFirstMatch(list, f, name, i) ==
    /\ i \in 1..Len(list)
    /\ list[i][f] = name
    /\ \A j \in 1..(i - 1) : list[j][f] # name

\* C25: both name lookups take the first entry in list order whose name
\* equals the requested name: a Read of a pending record stores the first
\* listed billing subscription with that FriendlyName, and meets the
\* not-found error (the record stays pending) when the listing holds none;
\* the cloud poller returns the GUID of the first listed cloud subscription
\* with that display name.
C25_FirstMatchWins ==
    /\ (OnPending("Read") /\ last.listed.ok) =>
         LET name == TrimPrefix(last.prior.id, PendingPrefix)
             items == last.listed.items
         IN  IF Listed(last.listed, name)
             THEN \E i \in 1..Len(items) :
                    /\ IsFirstMatch(items, "FriendlyName", name, i)
                    /\ tf.id = Itoa(items[i].ID)
                    /\ tf.guid = items[i].SubscriptionID
                    /\ tf.status = items[i].Status
             ELSE last.warn /\ tf = last.prior
    /\ (CreateAccepted /\ last.poll = "found") =>
         \E i \in 1..Len(last.seen) :
            /\ IsFirstMatch(last.seen, "displayName", last.in.name, i)
            /\ last.ret.SubscriptionID = last.seen[i].subscriptionId

\* C25 witness: the billing API listed two subscriptions with the pending
\* name and different IDs, and Read stored the first
C25_Witness ==
    /\ OnPending("Read")
    /\ Len(last.listed.items) = 2
    /\ last.listed.items[1].FriendlyName = last.listed.items[2].FriendlyName
    /\ last.listed.items[1].ID # last.listed.items[2].ID
    /\ tf.id = Itoa(last.listed.items[1].ID)
    /\ tf.guid = last.listed.items[1].SubscriptionID

----------------------------------------------------------------------------
(* Properties of doRequest and parseResponse *)

\* the requests of the running or last operation that went to endpoint ep
SentTo(ep) == { i \in 1..Len(sent) : sent[i].ep = ep }

\* the mutating request of the last operation failed: no answer came, or an
\* answer with a status outside 200..299
MutationFailed ==
    \/ last.resp.via = "transport"
    \/ last.resp.via = "http" /\ (last.resp.status < 200 \/ last.resp.status >= 300)

\* C26: an operation sends at most one request to the billing create, rename
\* or cancel endpoint; when that request fails, Create, Update or Delete ends
\* with an error, leaves the state as it was and has sent nothing after it.
C26_MutationsSentOnce ==
    /\ \A ep \in {"create", "rename", "cancel"} : Cardinality(SentTo(ep)) <= 1
    /\ (pc = "idle" /\ last.op \in {"Create", "Update", "Delete"} /\ MutationFailed) =>
          /\ last.err
          /\ tf = last.prior
          /\ Len(sent) = 1
          /\ sent[1].ep = (IF last.op = "Create" THEN "create"
                           ELSE IF last.op = "Update" THEN "rename" ELSE "cancel")

\* C26 witness: the cancel call of a Delete failed on the transport, one
\* request was sent and the record is still in state
C26_Witness ==
    /\ pc = "idle"
    /\ last.op = "Delete"
    /\ last.resp.via = "transport"
    /\ last.err
    /\ sent = <<Req("cancel", tf.plan, MaxBillingID, <<>>)>>
    /\ tf.present

----------------------------------------------------------------------------
(* doRequest on top of getToken: one billing API call, from the token to   *)
(* the error that the caller of parseResponse gets                         *)

\* the billing endpoints that are called
Endpoints == {"create", "cancel"}

\* a request as it goes out: req.Header.Set("Authorization", "Bearer "+token)
Authorized(ep, token) == [ep |-> ep, bearer |-> token]

\* the answers of the endpoint to a request that went out
CallOutcomes ==
    { o \in DoOutcomes({ZeroSub}) : o.via # "token" /\ o.status \in {0, 200, 401} }

\* what doRequest meets: the failure of getToken, or the answer o
Met(r, o) ==
    IF r.err THEN [via |-> "token", status |-> 0, kind |-> "none", rec |-> ZeroSub]
    ELSE o

\* the call, had a 401 answer dropped the cached token
AfterAnswer_dropsTokenOn401(c, o) ==
    IF o.via = "http" /\ o.status = 401
    THEN [c EXCEPT !.token = "", !.tokenExp = ZeroTime]
    ELSE c

\* doRequest and parseResponse assign no field of the Client: the cache
\* that the answer o leaves
AfterAnswer(c, o) == c

\* doRequest followed by parseResponse
doRequest ==
    \E ep \in Endpoints, o \in CallOutcomes :
    \E to \in TokenAnswers(cache, now) :
      LET r == getTokenCall(cache, config, now, to) IN
      /\ AuthDone("billing", r.hit, r.reqs, r.resp, r.ret, r.err,
                  AfterAnswer(r.cache, Met(r, o)))
      /\ sent' = Attempted(Met(r, o), Authorized(ep, r.ret))
      /\ last' = [LastNone EXCEPT !.op = "doRequest",
                      !.in = Answered(NoCr, Met(r, o)),
                      !.resp = Answered(NoCr, Met(r, o)).resp,
                      !.err = (CallResult(Met(r, o)) = "error")]
      /\ UNCHANGED <<tf, pc, cr, elapsed, tick, polls, azTok>>

NextCalls ==
    \/ doRequest
    \/ ShortWait

SpecCalls == InitAuth /\ [][NextCalls]_vars

\* the last step was a billing API call
Requested == last.op = "doRequest" /\ Called("billing")

\* C27: every billing API call first calls getToken; when getToken fails no
\* request goes out and the call fails; otherwise one request goes out with
\* the token getToken returned as bearer.  A 401 answer is returned as an
\* error: no token is acquired after it, the request is not sent again and
\* the cached token is the one getToken left.
C27_BearerOrNothing ==
    Requested =>
        /\ tcall.at = now
        /\ tcall.err => (sent = <<>> /\ last.err)
        /\ ~tcall.err => (Len(sent) = 1 /\ sent[1].bearer = tcall.ret)
        /\ (last.resp.via = "http" /\ last.resp.status = 401) =>
              /\ last.err
              /\ Len(sent) = 1
              /\ Len(tcall.reqs) <= 1
              /\ cache.token = sent[1].bearer
              /\ tcall.hit => (tcall.reqs = <<>> /\ cache = tcall.before)

\* C27 witness: a call that took the token t2 from the cache was answered
\* 401; t2 is still cached under the same expiry
C27_Witness ==
    /\ Requested
    /\ tcall.hit
    /\ last.resp.status = 401
    /\ last.err
    /\ sent = <<Authorized("cancel", "t2")>>
    /\ cache.token = "t2"
    /\ cache = tcall.before

----------------------------------------------------------------------------
(* Properties of the errors that reach the caller *)

\* C28: an operation whose billing token could not be acquired ends with an
\* error; a Read of a pending record whose name lookup failed on the token or
\* on the API call ends with an error, and with the "still pending" warning
\* only when the listing arrived and does not hold the name.
C28_LookupFailureIsError ==
    /\ (pc = "idle" /\ last.op \in {"Create", "Update", "Delete"}
          /\ last.resp.via = "token") => last.err
    /\ (OnPending("Read") /\ ~last.listed.ok) => (last.err /\ ~last.warn)

\* C30: after a Create whose create call was accepted (202, empty body) the
\* stored ID is "pending-" followed by the name, the stored subscription_id
\* is the GUID the cloud poll found, or the literal "pending" when it found
\* none, and the operation carries a warning and no error.
C30_AcceptedCreateStored ==
    CreateAccepted =>
        /\ tf.present
        /\ tf.id = PendingPrefix \o last.in.name
        /\ tf.name = last.in.name
        /\ IF last.poll = "found"
           THEN \E i \in 1..Len(last.seen) :
                  /\ IsFirstMatch(last.seen, "displayName", last.in.name, i)
                  /\ tf.guid = last.seen[i].subscriptionId
           ELSE tf.guid = "pending"
        /\ last.warn
        /\ ~last.err

\* C30 witness: the name "pending-a" was accepted and found in Azure under
\* g1: the stored ID is "pending-pending-a" and the stored GUID is g1
C30_Witness ==
    /\ CreateAccepted
    /\ last.poll = "found"
    /\ last.in.name = PendingPrefix \o <<"a">>
    /\ tf.id = PendingPrefix \o PendingPrefix \o <<"a">>
    /\ tf.guid = "g1"
    /\ last.warn

----------------------------------------------------------------------------
(* Properties of ImportState *)

\* the positions of ':' in key
Colons(key) == { i \in 1..Len(key) : key[i] = ":" }

\* the text before and after the only ':' of key
BeforeColon(key) == SubSeq(key, 1, (CHOOSE i \in Colons(key) : TRUE) - 1)

AfterColon(key) == SubSeq(key, (CHOOSE i \in Colons(key) : TRUE) + 1, Len(key))

\* C31: Import accepts a composite key exactly when it has two parts around
\* one ':' and the first part parses as a 64-bit integer; it then stores that
\* integer as azure_plan_id and the second part, verbatim, as id; for every
\* other key it reports an error and stores nothing.
C31_ImportComposite ==
    (pc = "idle" /\ last.op = "Import") =>
        LET key == last.in.name IN
        IF Cardinality(Colons(key)) = 1 /\ ParseIntOK(BeforeColon(key))
        THEN /\ ~last.err
             /\ tf.present
             /\ tf.plan = AtoiVal(BeforeColon(key))
             /\ tf.id = AfterColon(key)
        ELSE /\ last.err
             /\ tf = last.prior
             /\ ~tf.present

\* C31 witness: the key "7:" was accepted: the plan is 7 and the id is the
\* empty second part
C31_Witness ==
    /\ pc = "idle"
    /\ last.op = "Import"
    /\ last.in.name = <<"7", ":">>
    /\ ~last.err
    /\ tf.plan = 7
    /\ tf.id = <<>>

----------------------------------------------------------------------------
(* Provider: internal/provider/provider.go *)

\* getConfigValue: the attribute, else the environment variable, else the
\* default
getConfigValue(configValue, envValue, defaultValue) ==
    IF configValue # "" THEN configValue
    ELSE IF envValue # "" THEN envValue
    ELSE defaultValue

\* values of CRAYON_PASSWORD_BASE64_ENCODED, with what
\* base64.StdEncoding.DecodeString makes of them
Base64Values == {"", "cHc=", "cHc"}

DecodeString(s) ==
    IF s = "cHc=" THEN [err |-> FALSE, text |-> "pw"]
    ELSE [err |-> TRUE, text |-> ""]

\* lines 113-124: the password
ResolvePassword(configValue, envValue, envB64) ==
    IF configValue # "" THEN configValue
    ELSE IF envValue # "" THEN envValue
    ELSE IF envB64 # "" /\ ~DecodeString(envB64).err THEN DecodeString(envB64).text
    ELSE ""

\* parseIntString, the loop from character i on with n accumulated: it
\* returns without an error and without assigning *result at the first
\* character that is no digit.  (n is an int64 that wraps around; the values
\* of EnvOrgIDs stay far below that.)
RECURSIVE parseIntLoop(_, _, _)
parseIntLoop(s, i, n) ==
    IF i > Len(s) THEN [assigned |-> TRUE, n |-> n, err |-> FALSE]
    ELSE IF ~IsDigit(s[i]) THEN [assigned |-> FALSE, n |-> 0, err |-> FALSE]
    ELSE parseIntLoop(s, i + 1, n * 10 + DigitVal(s[i]))

parseIntString(s) == parseIntLoop(s, 1, 0)

\* parseIntFromEnv: var n int64; parseIntString(value, &n); *result = n
parseIntFromEnv(value) ==
    IF value = <<>> THEN [set |-> FALSE, result |-> 0, err |-> FALSE]
    ELSE IF parseIntString(value).err THEN [set |-> FALSE, result |-> 0, err |-> TRUE]
    ELSE [set |-> TRUE,
          result |-> IF parseIntString(value).assigned THEN parseIntString(value).n
                     ELSE 0,
          err |-> FALSE]

\* lines 126-136: "Handle organization ID"
ResolveOrganizationID(attr, envValue) ==
    IF ~attr.null THEN attr.val
    ELSE IF envValue # <<>>
    THEN IF ~parseIntFromEnv(envValue).err
         THEN (IF parseIntFromEnv(envValue).set THEN parseIntFromEnv(envValue).result
               ELSE 0)
         ELSE DefaultOrganizationID
    ELSE DefaultOrganizationID

\* lines 144-145: some but not all of the three Azure credentials are set
IncompleteAzure(id, secret, tenant) ==
    /\ (id # "" \/ secret # "" \/ tenant # "")
    /\ (id = "" \/ secret = "" \/ tenant = "")

\* the diagnostics, had an incomplete triple been an error
AzureDiagnostics_incompleteIsError(id, secret, tenant) ==
    [warn |-> FALSE, err |-> IncompleteAzure(id, secret, tenant)]

\* lines 143-152: "Validate Azure credentials if partially set"
AzureDiagnostics(id, secret, tenant) ==
    [warn |-> IncompleteAzure(id, secret, tenant), err |-> FALSE]

\* an attribute of the provider block and its environment variable
Sources(v) == { <<"", "">>, <<v, "">>, <<"", v>> }

\* values of CRAYON_ORGANIZATION_ID
EnvOrgIDs == { <<>>, <<"1", "2">>, <<"1", "x">>, <<"-", "5">> }

\* the organization_id attribute: null, or set
OrgAttrs == { [null |-> TRUE, val |-> 0], [null |-> FALSE, val |-> 5] }

\* provider blocks and environments
ProviderInputs ==
    [ clientID : {<<"cid", "">>, <<"", "">>},
      clientSecret : {<<"", "cs">>, <<"", "">>},
      username : {<<"user", "">>, <<"", "">>},
      password : { <<"", "", "">>, <<"pw", "", "">>, <<"", "", "cHc=">>,
                   <<"", "", "cHc">> },
      org : OrgAttrs,
      envOrg : EnvOrgIDs,
      azureClientID : Sources("id"),
      azureClientSecret : Sources("secret"),
      azureTenantID : {<<"", "">>, <<"", "tenant">>} ]

\* the values Configure resolves from the provider block and the environment
Resolved(in) ==
    [ clientID |-> getConfigValue(in.clientID[1], in.clientID[2], ""),
      clientSecret |-> getConfigValue(in.clientSecret[1], in.clientSecret[2], ""),
      username |-> getConfigValue(in.username[1], in.username[2], ""),
      password |-> ResolvePassword(in.password[1], in.password[2], in.password[3]),
      organizationID |-> ResolveOrganizationID(in.org, in.envOrg),
      azureClientID |-> getConfigValue(in.azureClientID[1], in.azureClientID[2], ""),
      azureClientSecret |->
          getConfigValue(in.azureClientSecret[1], in.azureClientSecret[2], ""),
      azureTenantID |-> getConfigValue(in.azureTenantID[1], in.azureTenantID[2], "") ]

\* no provider has been configured
Unconfigured == last.op = "none"

\* Configure handed a Client to the resources
Configured == last.op = "Configure" /\ ~last.err

\* CrayonProvider.Configure
Configure ==
    /\ Unconfigured
    /\ \E in \in ProviderInputs :
         LET v == Resolved(in)
             az == AzureDiagnostics(v.azureClientID, v.azureClientSecret,
                                    v.azureTenantID)
             err == az.err \/ v.clientID = "" \/ v.clientSecret = ""
         IN
         /\ last' = [LastNone EXCEPT !.op = "Configure", !.in = in,
                         !.warn = az.warn, !.err = err]
         /\ config' = IF err THEN config
                      ELSE [ClientConfig(v.username, v.password, v.azureClientID,
                                         v.azureClientSecret, v.azureTenantID)
                               EXCEPT !.OrganizationID = v.organizationID]
    /\ UNCHANGED <<tf, pc, cr, elapsed, tick, sent, polls, azTok,
                   now, cache, tcall, thr, tag>>

\* a resource operation asks the configured Client for the cloud token
AcquireCloudToken == Configured /\ getAzureToken

\* half a minute passes for the configured Client
ConfiguredWait == Configured /\ ShortWait

InitProvider == ResourceAtRest /\ ClientBuilt(ClientConfig("", "", "", "", ""))

NextProvider ==
    \/ Configure
    \/ AcquireCloudToken
    \/ ConfiguredWait

SpecProvider == InitProvider /\ [][NextProvider]_vars

----------------------------------------------------------------------------
(* Properties of Configure *)

\* one or two of the three Azure credentials Configure resolved are set
PartialTriple ==
    /\ last.op = "Configure"
    /\ IncompleteAzure(Resolved(last.in).azureClientID,
                       Resolved(last.in).azureClientSecret,
                       Resolved(last.in).azureTenantID)

DecimalDigits(s) == s # <<>> /\ \A i \in 1..Len(s) : IsDigit(s[i])

\* the number a sequence of decimal digits writes
RECURSIVE DecimalValue(_)
DecimalValue(s) ==
    IF s = <<>> THEN 0
    ELSE 10 * DecimalValue(SubSeq(s, 1, Len(s) - 1)) + DigitVal(s[Len(s)])

\* C39: the Client that Configure builds has the organization ID of the
\* organization_id attribute when that is set, else the number that
\* CRAYON_ORGANIZATION_ID writes when it consists of decimal digits, else
\* 4051878.
C39_OrganizationID ==
    Configured =>
        config.OrganizationID =
            IF ~last.in.org.null THEN last.in.org.val
            ELSE IF DecimalDigits(last.in.envOrg) THEN DecimalValue(last.in.envOrg)
            ELSE DefaultOrganizationID

----------------------------------------------------------------------------
(* Read of a pending record by the Client that created it, or by a new one *)

\* token, err := c.getToken() of doRequest, had it only used the token that
\* the Client holds and failed without one
ClientToken_cachedOnly(c, cfg, t, o) ==
    IF CacheValid(c.token, c.tokenExp, t)
    THEN getTokenCall(c, cfg, t, o)
    ELSE [hit |-> FALSE, reqs |-> <<>>, resp |-> NoTokenResp, ret |-> "",
          err |-> TRUE, cache |-> c]

\* token, err := c.getToken() of doRequest
ClientToken(c, cfg, t, o) == getTokenCall(c, cfg, t, o)

\* what GetAzureSubscriptions comes back with, after the token call r, when
\* the billing API answers the listing request with o
ListedAfter(r, o) ==
    IF r.err THEN [via |-> "token", ok |-> FALSE, items |-> <<>>] ELSE o

\* answers of the billing API to a listing request that reaches it: a
\* failure, or a listing of one record at most (the order of longer listings
\* is the subject of the name lookups above)
ListAnswers(plan) ==
    { o \in ListOutcomes(plan) : RequestSent(o) /\ Len(o.items) <= 1 }

\* Read of a pending record, followed into the Client
ReadByClient ==
    /\ pc = "idle"
    /\ tf.present
    /\ IsPending(tf.id)
    /\ \E to \in TokenAnswers(cache, now), o \in ListAnswers(tf.plan) :
         LET r == ClientToken(cache, config, now, to) IN
         /\ AuthDone("billing", r.hit, r.reqs, r.resp, r.ret, r.err, r.cache)
         /\ ReadPendingOn(ListedAfter(r, o))

\* the process ends and the next run of Terraform builds its Client anew
NewClient ==
    /\ pc = "idle"
    /\ cache # ZeroCache
    /\ cache' = ZeroCache
    /\ tcall' = NoCall
    /\ sent' = <<>>
    /\ UNCHANGED <<now, config, thr, tag>>
    /\ UNCHANGED <<tf, pc, cr, elapsed, tick, polls, azTok, last>>

\* a pending record is in state, and the Client has made no call yet
InitRestart ==
    /\ tf \in { m \in AcceptedModels : IsPending(m.id) }
    /\ pc = "idle"
    /\ cr = NoCr
    /\ elapsed = 0
    /\ tick = FALSE
    /\ sent = <<>>
    /\ polls = 0
    /\ azTok = 0
    /\ last = LastNone
    /\ ClientBuilt(ClientConfig("user", "pw", "", "", ""))

NextRestart ==
    \/ doRequest
    \/ NewClient
    \/ ReadByClient

SpecRestart == InitRestart /\ [][NextRestart]_vars

\* the last operation was a Read of a pending record, and tcall is the token
\* call it made
ReadThroughClient ==
    /\ last.op = "Read"
    /\ IsPending(last.prior.id)
    /\ tcall.kind = "billing"

\* the token endpoint was asked and answered with a failure
TokenRefused == tcall.reqs # <<>> /\ TokenFailed(tcall.resp)

\* C33: what a Read of a pending record leaves in state is determined by the
\* state it found and by the answers it got, whatever the Client held in
\* memory: the Read fails at the token exactly when the token endpoint was
\* asked and answered with a failure; when the listing arrives and holds the
\* name of the stored ID, the state is the stored one with ID, GUID, status and
\* name of the first such record; in every other case the state is left as
\* it was.
C33_ReadResumable ==
    ReadThroughClient =>
        LET name == TrimPrefix(last.prior.id, PendingPrefix)
            items == last.listed.items
        IN
        /\ (last.listed.via = "token") <=> TokenRefused
        /\ IF ~TokenRefused /\ last.listed.ok
                /\ \E i \in 1..Len(items) : items[i].FriendlyName = name
           THEN \E i \in 1..Len(items) :
                  /\ items[i].FriendlyName = name
                  /\ \A j \in 1..(i - 1) : items[j].FriendlyName # name
                  /\ tf = [last.prior EXCEPT !.id = Itoa(items[i].ID),
                                             !.guid = items[i].SubscriptionID,
                                             !.status = items[i].Status,
                                             !.name = items[i].FriendlyName]
           ELSE tf = last.prior

\* a Client that holds no token reads a pending record, gets a token and the
\* listing with the record, and stores its numeric ID
C33_Witness ==
    /\ ReadThroughClient
    /\ tcall.before = ZeroCache
    /\ ~tcall.hit
    /\ ~tcall.err
    /\ last.listed.ok
    /\ tf.id = Itoa(MaxBillingID)
    /\ last.prior.id = PendingPrefix \o <<"a">>

----------------------------------------------------------------------------
(* Properties of the pending ID *)

\* what follows the first "pending-" of a pending ID
NameIn(id) == SubSeq(id, Len(PendingPrefix) + 1, Len(id))

\* C34: a Create that stores a pending ID stores "pending-" followed by the
\* name it was given; no operation changes a pending ID into another pending
\* ID; and a Read of a pending record looks up exactly what follows the first
\* "pending-" of the stored ID: when the listing arrives, the record is
\* resolved if and only if the listing holds that name, and then to a record
\* of that name.  This holds for names that start with "pending-" as well.
C34_NameRoundTrip ==
    [][ /\ (last'.op = "Create" /\ tf'.present /\ IsPending(tf'.id)) =>
               /\ tf'.id = PendingPrefix \o last'.in.name
               /\ NameIn(tf'.id) = last'.in.name
        /\ (tf.present /\ IsPending(tf.id) /\ tf'.present /\ IsPending(tf'.id)) =>
               tf'.id = tf.id
        /\ (last'.op = "Read" /\ IsPending(last'.prior.id) /\ last'.listed.ok) =>
               /\ IsPending(tf'.id) <=>
                      \A i \in 1..Len(last'.listed.items) :
                          last'.listed.items[i].FriendlyName # NameIn(last'.prior.id)
               /\ ~IsPending(tf'.id) => tf'.name = NameIn(last'.prior.id)
      ]_vars

\* the name "pending-a" was stored as "pending-pending-a", and a Read found
\* the record of that name
C34_Witness ==
    /\ last.op = "Read"
    /\ last.prior.id = PendingPrefix \o PendingPrefix \o <<"a">>
    /\ last.listed.ok
    /\ tf.id = Itoa(MaxBillingID)
    /\ tf.name = PendingPrefix \o <<"a">>

\* C35: a Create leaves "pending-" and the name as the ID only when its
\* create call was answered 202 with an empty body; when the call was
\* answered with a record, the ID it leaves is the decimal ID of that record.
C35_PendingOnlyWhenAccepted ==
    (pc = "idle" /\ last.op = "Create" /\ tf.present) =>
        /\ tf.id = PendingPrefix \o last.in.name => Accepted(last.resp)
        /\ Materialized(last.resp) => tf.id = Itoa(last.resp.rec.ID)

----------------------------------------------------------------------------
(* Properties of the token a call returns *)

\* C36: a get-token call that returns without an error returns a token that
\* is not the empty string.
C36_TokenNonEmpty ==
    (tcall.kind \in {"billing", "azure"} /\ ~tcall.err) => tcall.ret # ""

----------------------------------------------------------------------------
(* WaitForAzureSubscription, followed into the Client's cloud token *)

MaxStartClock == 60     \* latest time, in seconds, at which a call begins

\* the token of a listing request, had the loop asked the cache again once
\* the token it holds is past its expiry
LoopToken_refreshed(c, token, t) ==
    IF t < c.azureTokenExp THEN token ELSE ""

\* req.Header.Set("Authorization", "Bearer "+token): the loop uses the token
\* that getAzureToken returned before the loop
LoopToken(c, token, t) == token

\* GET https://management.azure.com/subscriptions, with its bearer token
ArmRequest(token) == [ep |-> "arm", bearer |-> token]

\* answers to a listing request of the loop: a failure, or a listing of one
\* subscription at most
ArmAnswers == { o \in ArmOutcomes : Len(o.value) <= 1 }

\* WaitForAzureSubscription returned to its caller
PollReturn(how, err) ==
    /\ pc' = "idle"
    /\ cr' = NoCr
    /\ elapsed' = 0
    /\ tick' = FALSE
    /\ last' = [LastNone EXCEPT !.op = "Wait", !.poll = how, !.retErr = err]

\* lines 199-209: getAzureToken returned to WaitForAzureSubscription, which
\* returns its error, or arms the timer and the ticker
WaitEntered(name, kind, hit, reqs, resp, ret, err, newcache) ==
    /\ AuthDone(kind, hit, reqs, resp, ret, err, newcache)
    /\ azTok' = 1
    /\ polls' = 0
    /\ sent' = <<>>
    /\ IF err
       THEN PollReturn("authfail", TRUE)
       ELSE /\ pc' = "armWait"
            /\ cr' = [NoCr EXCEPT !.name = name, !.wait = AzureWaitTimeout]
            /\ elapsed' = 0
            /\ tick' = NewTicker
            /\ last' = LastNone
    /\ UNCHANGED tf

\* WaitForAzureSubscription(name, 20*time.Minute) is called
WaitForAzureSubscription ==
    /\ pc = "idle"
    /\ now <= MaxStartClock
    /\ \E name \in Names :
         getAzureTokenTo(LAMBDA kind, hit, reqs, resp, ret, err, newcache :
                            WaitEntered(name, kind, hit, reqs, resp, ret, err, newcache))

\* time passes while the loop is blocked in select
PollTimePasses ==
    /\ pc = "armWait"
    /\ elapsed < cr.wait
    /\ elapsed' = elapsed + PollInterval
    /\ now' = now + PollInterval
    /\ tick' = TRUE
    /\ UNCHANGED <<tf, pc, cr, sent, polls, azTok, last, config, cache, tcall, thr, tag>>

\* case <-ticker.C: one listing request with the bearer token, and what the
\* loop does with its answer
PollTick ==
    /\ pc = "armWait"
    /\ tick
    /\ polls' = polls + 1
    /\ sent' = Append(sent, ArmRequest(LoopToken(cache, tcall.ret, now)))
    /\ \E o \in ArmAnswers :
         IF AttemptStep(o, cr.name) = "return guid"
         THEN PollReturn("found", FALSE)
         ELSE IF AttemptStep(o, cr.name) = "return err"
         THEN PollReturn("error", TRUE)
         ELSE /\ tick' = FALSE
              /\ UNCHANGED <<pc, cr, elapsed, last>>
    /\ UNCHANGED <<tf, azTok, authvars>>

\* case <-timeoutCh
PollTimeout ==
    /\ pc = "armWait"
    /\ TimeoutReady(elapsed, cr.wait)
    /\ PollReturn("timeout", TRUE)
    /\ UNCHANGED <<tf, sent, polls, azTok, authvars>>

\* a Client with the Service Principal, or with the login session only
InitPoll ==
    /\ ResourceAtRest
    /\ \E cfg \in { ClientConfig("user", "pw", "id", "secret", "tenant"),
                    ClientConfig("user", "pw", "", "", "") } : ClientBuilt(cfg)

NextPoll ==
    \/ WaitForAzureSubscription
    \/ PollTimePasses
    \/ PollTick
    \/ PollTimeout

SpecPoll == InitPoll /\ [][NextPoll]_vars

\* C37: while WaitForAzureSubscription is in its loop, and after it returned,
\* getAzureToken was called once in that call; the call was made when the
\* loop was entered, and the cache is as that call left it; and every listing
\* request of the call carries the token that call returned, also when the
\* cached expiry has passed meanwhile.
C37_OneCloudToken ==
    /\ pc = "armWait" =>
          /\ azTok = 1
          /\ tcall.kind = "azure"
          /\ ~tcall.err
          /\ tcall.at + elapsed = now
          /\ Len(tcall.reqs) <= 1
          /\ cache.azureToken = tcall.ret
          /\ \A i \in 1..Len(sent) : sent[i] = ArmRequest(tcall.ret)
    /\ (pc = "idle" /\ last.op = "Wait") =>
          /\ azTok = 1
          /\ tcall.kind = "azure"
          /\ Len(sent) = polls
          /\ tcall.err => sent = <<>>
          /\ \A i \in 1..Len(sent) : sent[i] = ArmRequest(tcall.ret)

\* the token was acquired from the Service Principal endpoint, the loop has
\* outlasted its expiry, and a listing request sent after that carried it
C37_Witness ==
    /\ pc = "armWait"
    /\ ~tcall.hit
    /\ tcall.ret = "t1"
    /\ now > cache.azureTokenExp
    /\ ~tick
    /\ polls = elapsed \div PollInterval
    /\ sent[Len(sent)].bearer = "t1"

----------------------------------------------------------------------------
(* Properties of Update *)

\* the last operation was an Update of a record with a numeric ID
UpdatedResolved ==
    /\ pc = "idle"
    /\ last.op = "Update"
    /\ ParseID(last.prior.id).ok

\* C38: an Update of a record with a numeric ID leaves the stored ID as it
\* was.  With the name unchanged it sends no request and keeps GUID and
\* status.  After a rename that succeeded the name is the planned one, and
\* GUID and status are the ones of the answer where the answer has them and
\* the prior ones where it has not.  After a rename that failed the state is
\* the prior state.
C38_UpdateFrame ==
    UpdatedResolved =>
        /\ tf.id = last.prior.id
        /\ tf.plan = last.prior.plan
        /\ last.in.name = last.prior.name =>
              /\ sent = <<>>
              /\ ~last.err
              /\ tf.guid = last.prior.guid
              /\ tf.status = last.prior.status
        /\ (last.in.name # last.prior.name /\ ~last.err) =>
              /\ tf.name = last.in.name
              /\ tf.guid = IF last.resp.rec.SubscriptionID # ""
                           THEN last.resp.rec.SubscriptionID ELSE last.prior.guid
              /\ tf.status = IF last.resp.rec.Status # ""
                             THEN last.resp.rec.Status ELSE last.prior.status
              /\ last.prior.guid # "" => tf.guid # ""
              /\ last.prior.status # "" => tf.status # ""
        /\ last.err => tf = last.prior

\* a rename answered 204 without a body: GUID and status of the prior state
\* are kept under the new name
C38_Witness ==
    /\ UpdatedResolved
    /\ last.in.name # last.prior.name
    /\ ~last.err
    /\ last.resp.status = StatusNoContent
    /\ last.prior.guid = "g1"
    /\ last.prior.status = "active"
    /\ tf.guid = "g1"
    /\ tf.status = "active"
    /\ tf.name = last.in.name

====
